---- MODULE Spec2Model ----
(***************************************************************************)
(* Model of the retrieval pipeline of chat-budlm:                          *)
(*   lib/services/chroma.ts              embedding cache, ingestion,       *)
(*                                       queryDocuments, overview probes,  *)
(*                                       diversity filter                  *)
(*   lib/services/document-processor.ts  processDocument (status machine)  *)
(*   lib/db/project-queries.ts           createChatFile / status updates   *)
(*                                                                         *)
(* A text is a sequence of one-character strings.  Distances are in        *)
(* hundredths (41 stands for 0.41).  A similarity threshold is a pair      *)
(* <<num, den>> standing for num/den.                                      *)
(***************************************************************************)
EXTENDS Integers, Sequences, FiniteSets, TLC

VARIABLES
  \* ---- createEmbeddings (chroma.ts 29-34, 375-408)
  embeddingCache,   \* Map<string, number[]>: function from cache key to vector
  embPc,            \* "idle" | "awaitEncoder": position of the running call
  embTexts,         \* argument of the running / last call
  embResults,       \* results[] of the running call (NoVec marks a hole)
  embToEmbed,       \* textsToEmbed of the running call
  embIndices,       \* indices of the running call
  embRet,           \* outcome of the last finished call
  embUpstream,      \* batches handed to embeddings.embedDocuments by the last call
  embCacheAtCall,   \* the cache as it was when the last call started
  embPrev,          \* texts and outcome of the call finished before the last one
  \* ---- applyDiversityFilter (chroma.ts 955-1007)
  divDocs,          \* documents argument
  divThreshold,     \* threshold argument <<num, den>>
  divMax,           \* maxResults argument
  divSelected,      \* selected[]: indices accepted, "none" before the call
  \* ---- processDocument / processAndStoreDocument
  files,            \* chatFile rows: fileId -> [embeddingStatus, fileType] or NoFile
  collections,      \* vector store: fileId -> NoCollection or sequence of chunk records
  ingPc,            \* per file: position of its processDocument run
  ingArgs,          \* per file: the fileType argument of its processDocument run
  ingRet,           \* per file: outcome of processDocument seen by the caller
  ingAttempts,      \* per file: how many times each stage was started
  ingFailedAt,      \* per file: the stage that threw ("none" if none did)
  ingChunks,        \* per file: chunks produced by splitText (a local of the run)
  ingEmb,           \* per file: results / textsToEmbed / indices of its createEmbeddings
  statusLog,        \* per file: sequence of statuses the row went through
  \* ---- queryDocuments (chroma.ts 478-644)
  qPc,              \* "idle" | "embedding" | "files" | "done"
  qArgs,            \* arguments of the call
  qEmbedding,       \* queryEmbedding
  qTasks,           \* per position of fileIds: [settled, result] of the per-file callback
  qTaskThrew,       \* per position of fileIds: did the per-file query throw
  qOrder,           \* the positions of fileIds in the order their callbacks settled
  qRet,             \* outcome of the call
  qEncoderCalls,    \* upstream encoder calls made by the call
  qStoreCalls,      \* vector-store calls made by the call
  qCacheAtCall,     \* the cache as it was when the call started
  qCaught,          \* what the catch of line 634 caught ("none" if nothing)
  \* ---- retrieveOverviewContextForFile (chroma.ts 647-768)
  ovPc,             \* "idle" | "semantic" | "structural" | "fallback" | "done"
  ovArgs,           \* [fileId, nResults]
  ovSemantic,       \* semanticResults
  ovStructural,     \* structuralResults (sequence, one per structural query)
  ovRet,            \* outcome
  \* ---- finalScore of rerankByRelevance (chroma.ts 1028-1043)
  scoreArgs,        \* [query, document, chunkIndex, totalChunks, distance] of one chunk
  scoreValue,       \* finalScore as <<numerator, denominator>>, <<0, 0>> before it is computed
  \* ---- POST of the chat route (part_004 93-426), from the retrieval on
  chatPc,           \* "idle" | "check" | "detect" | "query" | "build" | "saveMessages" |
                    \* "createStreamId" | "stream" | "done"
  chatReq,          \* [fileIdsToQuery, userQuery] of the request
  ragContext,       \* ragContext: text handed to systemPromptWithRAG ("" is <<>>)
  ragMetrics,       \* ragMetrics
  chatQueryCall,    \* arguments queryDocuments was called with (NoQueryCall if it was not)
  chatQueryResult,  \* queryResult of line 209 (NoQueryResult until queryDocuments resolved)
  chatOutcome,      \* "skipped" | "chunks" | "empty" | "queryThrew" | "buildThrew" | "none"
  chatSaved,        \* messages handed to saveMessages
  chatStream,       \* [started, ragContext, query]: the stream and what its prompt was built from
  chatResponse,     \* "none" | "stream" | an error code: what the handler returned
  \* ---- detectQueryType (chroma.ts 37-60, part_004 456-479)
  clsQuery,         \* query argument
  clsResult,        \* [chroma, route]: what each copy returned ("none" before the call)
  \* ---- DELETE of the files route (app/api/files/route.ts 171-226)
  delPc,            \* "idle" | "getFile" | "uploadthing" | "chroma" | "record" | "done"
  delArgs,          \* [userId, id]: is the caller signed in, and the id of the request
  delChromaError,   \* what the catch of lines 210-212 caught ("none" if nothing)
  delRet,           \* the response: 0 before it, an HTTP status, or a ChatSDKError code
  \* ---- the vector queries of one per-file callback (chroma.ts 526-551, 668-698, 755-758)
  reqArgs,          \* [nResults, fileIds, rerankResults, overview] of the queryDocuments call
  reqSizes,         \* nResults of every collection.query the callback issued, in order
  \* ---- processPDF (chroma.ts 63-117)
  pdfPc,            \* "idle" | "parse" | "mistral" | "gemini" | "done"
  pdfIn,            \* [pageCount, trimmedLength]: result.total and text.trim().length
  pdfOcr,           \* the OCR engines invoked, in order
  pdfRet,           \* [kind, text, metadata]: kind is "none" | "ok" | "throw"
  \* ---- extractTextWithGemini (chroma.ts 120-189)
  gemPc,            \* "idle" | "load" | "single" | "submitting" | "awaitAll" | "done"
  gemTotal,         \* totalPages
  gemNext,          \* startPage of the loop of line 139 (0-based)
  gemChunks,        \* chunks[]: [startPage, endPage, state, text] of every processChunk call
  gemOrder,         \* the positions of chunks[] in the order the calls settled
  gemRet            \* [kind, text]: kind is "none" | "ok" | "throw"

embVars == <<embeddingCache, embPc, embTexts, embResults, embToEmbed, embIndices,
             embRet, embUpstream, embCacheAtCall, embPrev>>
divVars == <<divDocs, divThreshold, divMax, divSelected>>
ingVars == <<files, collections, ingPc, ingArgs, ingRet, ingAttempts, ingFailedAt, ingChunks,
             ingEmb, statusLog>>
qVars   == <<qPc, qArgs, qEmbedding, qTasks, qTaskThrew, qOrder, qRet, qEncoderCalls,
             qStoreCalls, qCacheAtCall, qCaught>>
ovVars  == <<ovPc, ovArgs, ovSemantic, ovStructural, ovRet>>
scoreVars == <<scoreArgs, scoreValue>>
chatVars == <<chatPc, chatReq, ragContext, ragMetrics, chatQueryCall, chatQueryResult,
              chatOutcome, chatSaved, chatStream, chatResponse>>
clsVars == <<clsQuery, clsResult>>
delVars == <<delPc, delArgs, delChromaError, delRet>>
reqVars == <<reqArgs, reqSizes>>
pdfVars == <<pdfPc, pdfIn, pdfOcr, pdfRet>>
gemVars == <<gemPc, gemTotal, gemNext, gemChunks, gemOrder, gemRet>>
vars    == <<embVars, divVars, ingVars, qVars, ovVars, scoreVars, chatVars, clsVars, delVars, reqVars, pdfVars, gemVars>>

(***************************************************************************)
(* Bounds of the model                                                     *)
(***************************************************************************)
MaxBatch == 2          \* longest texts[] handed to createEmbeddings
EncoderVersions == 2   \* distinct vectors the upstream encoder may answer for one text
MaxDocs == 3           \* longest documents[] handed to applyDiversityFilter
MaxChunks == 2         \* most chunks splitText cuts one document into
MaxOverviewN == 5      \* largest per-file budget handed to retrieveOverviewContextForFile
MaxStored == 5         \* most chunks in a collection that is queried

(***************************************************************************)
(* Texts                                                                   *)
(***************************************************************************)
Whitespace == {" "}

\* String.prototype.toLowerCase, per character
LowerChar(c) ==
  CASE c = "A" -> "a" [] c = "B" -> "b" [] c = "C" -> "c" [] c = "D" -> "d" [] c = "E" -> "e"
    [] c = "F" -> "f" [] c = "G" -> "g" [] c = "H" -> "h" [] c = "I" -> "i" [] c = "J" -> "j"
    [] c = "K" -> "k" [] c = "L" -> "l" [] c = "M" -> "m" [] c = "N" -> "n" [] c = "O" -> "o"
    [] c = "P" -> "p" [] c = "Q" -> "q" [] c = "R" -> "r" [] c = "S" -> "s" [] c = "T" -> "t"
    [] c = "U" -> "u" [] c = "V" -> "v" [] c = "W" -> "w" [] c = "X" -> "x" [] c = "Y" -> "y"
    [] c = "Z" -> "z"
    [] OTHER -> c

toLowerCase(s) == [i \in 1..Len(s) |-> LowerChar(s[i])]

\* first position >= i of s holding a whitespace character, Len(s)+1 if none
RECURSIVE NextWs(_, _)
NextWs(s, i) == IF i > Len(s) THEN Len(s) + 1
                ELSE IF s[i] \in Whitespace THEN i ELSE NextWs(s, i + 1)

\* first position >= i of s holding a non-whitespace character, Len(s)+1 if none
RECURSIVE NextNonWs(_, _)
NextNonWs(s, i) == IF i > Len(s) THEN Len(s) + 1
                   ELSE IF s[i] \notin Whitespace THEN i ELSE NextNonWs(s, i + 1)

\* String.prototype.split(/\s+/): the pieces between maximal whitespace runs,
\* an empty piece before a leading run and after a trailing run; "" gives [""]
RECURSIVE SplitWs(_)
SplitWs(s) ==
  LET w == NextWs(s, 1) IN
  IF w > Len(s) THEN <<s>>
  ELSE LET r == NextNonWs(s, w) IN
       <<SubSeq(s, 1, w - 1)>> \o SplitWs(SubSeq(s, r, Len(s)))

Range(f) == {f[i] : i \in DOMAIN f}

\* sample documents: "a", "a b", "A  b", " a", "", "b c"
DocA    == <<"a">>
DocAB   == <<"a", " ", "b">>
DocAB2  == <<"A", " ", " ", "b">>
DocSpA  == <<" ", "a">>
DocNone == <<>>
DocBC   == <<"b", " ", "c">>
DocPool == {DocA, DocAB, DocAB2, DocSpA, DocNone, DocBC}

(***************************************************************************)
(* Embedding cache and createEmbeddings                                    *)
(***************************************************************************)
NoVec == <<"hole">>

\* getCacheKey: the MD5 digest of the text (collision-free on the texts of the model)
getCacheKey(text) == <<"md5", text>>

\* the vectors embeddings.embedDocuments may answer for one text
EncoderVectors(text) == {<<"vec", text, v>> : v \in 0..(EncoderVersions - 1)}

\* a set that evicts every other entry
CacheSetEvicting(cache, key, vec) == [k \in {key} |-> vec]

\* Map.prototype.set
CacheSet(cache, key, vec) ==
  [k \in DOMAIN cache \cup {key} |-> IF k = key THEN vec ELSE cache[k]]

\* a cache check that never hits: every text is handed to the encoder again
CacheCheckNeverHits(texts, cache) ==
  [results |-> [i \in 1..Len(texts) |-> NoVec],
   textsToEmbed |-> texts,
   indices |-> [k \in 1..Len(texts) |-> k]]

\* createEmbeddings, the forEach over texts of lines 381-391
CacheCheck(texts, cache) ==
  LET miss(i) == getCacheKey(texts[i]) \notin DOMAIN cache
      missIdx == {i \in 1..Len(texts) : miss(i)}
      \* the misses in ascending index order
      nth[k \in 0..Len(texts)] ==
        IF k = 0 THEN 0
        ELSE IF \E i \in missIdx : i > nth[k - 1]
             THEN CHOOSE i \in missIdx : i > nth[k - 1]
                       /\ \A j \in missIdx : j > nth[k - 1] => i <= j
             ELSE 0
      indices == [k \in 1..Cardinality(missIdx) |-> nth[k]]
  IN [results |-> [i \in 1..Len(texts) |->
                     IF miss(i) THEN NoVec ELSE cache[getCacheKey(texts[i])]],
      textsToEmbed |-> [k \in 1..Len(indices) |-> texts[indices[k]]],
      indices |-> indices]

\* a merge that writes results[i] instead of results[indices[i]]
MergeResultsAtBatchIndex(results, indices, newEmbeddings) ==
  [i \in 1..Len(results) |->
     IF i <= Len(newEmbeddings) THEN newEmbeddings[i] ELSE results[i]]

\* createEmbeddings, newEmbeddings.forEach of lines 397-404: results after the merge
MergeResults(results, indices, newEmbeddings) ==
  [i \in 1..Len(results) |->
     IF \E k \in 1..Len(indices) : indices[k] = i
     THEN newEmbeddings[CHOOSE k \in 1..Len(indices) : indices[k] = i]
     ELSE results[i]]

\* createEmbeddings, newEmbeddings.forEach of lines 397-404: cache after the sets
RECURSIVE MergeCache(_, _, _)
MergeCache(cache, textsToEmbed, newEmbeddings) ==
  IF textsToEmbed = <<>> THEN cache
  ELSE MergeCache(CacheSet(cache, getCacheKey(Head(textsToEmbed)), Head(newEmbeddings)),
                  Tail(textsToEmbed), Tail(newEmbeddings))

\* a cache that reserves an entry for every miss before the encoder is awaited
CacheReservedBeforeAwait(cache, textsToEmbed) ==
  MergeCache(cache, textsToEmbed, [k \in 1..Len(textsToEmbed) |-> NoVec])

\* the cache when embedDocuments rejects: line 395 throws before any set
CacheOnEncoderThrow(cache, textsToEmbed) == cache

EmbedTexts == {DocA, DocAB, DocBC}

SeqsUpTo(S, n) == UNION {[1..k -> S] : k \in 0..n}

EmbIdleInit ==
  /\ embeddingCache = <<>>
  /\ embPc = "idle"
  /\ embTexts = <<>>
  /\ embResults = <<>>
  /\ embToEmbed = <<>>
  /\ embIndices = <<>>
  /\ embRet = [kind |-> "none", value |-> <<>>]
  /\ embUpstream = <<>>
  /\ embCacheAtCall = <<>>
  /\ embPrev = [kind |-> "none", texts |-> <<>>, value |-> <<>>]

\* createEmbeddings(texts) up to the await of line 395 (or to the return of line 407
\* when nothing missed the cache)
EmbedCall(texts) ==
  LET c == CacheCheck(texts, embeddingCache) IN
  /\ embPc = "idle"
  /\ embTexts' = texts
  /\ embCacheAtCall' = embeddingCache
  /\ embPrev' = [kind |-> embRet.kind, texts |-> embTexts, value |-> embRet.value]
  /\ embResults' = c.results
  /\ embToEmbed' = c.textsToEmbed
  /\ embIndices' = c.indices
  /\ IF Len(c.textsToEmbed) > 0
     THEN /\ embPc' = "awaitEncoder"
          /\ embUpstream' = <<c.textsToEmbed>>
          /\ embRet' = [kind |-> "running", value |-> <<>>]
     ELSE /\ embPc' = "idle"
          /\ embUpstream' = <<>>
          /\ embRet' = [kind |-> "ok", value |-> c.results]
  /\ UNCHANGED embeddingCache

\* embeddings.embedDocuments resolves with one vector per text handed to it
EncoderReturn ==
  /\ embPc = "awaitEncoder"
  /\ \E newEmbeddings \in [1..Len(embToEmbed) -> UNION {EncoderVectors(t) : t \in EmbedTexts}] :
       /\ \A k \in 1..Len(embToEmbed) : newEmbeddings[k] \in EncoderVectors(embToEmbed[k])
       /\ embResults' = MergeResults(embResults, embIndices, newEmbeddings)
       /\ embeddingCache' = MergeCache(embeddingCache, embToEmbed, newEmbeddings)
  /\ embRet' = [kind |-> "ok", value |-> embResults']
  /\ embPc' = "idle"
  /\ UNCHANGED <<embTexts, embToEmbed, embIndices, embUpstream, embCacheAtCall, embPrev>>

\* embeddings.embedDocuments rejects: createEmbeddings has no try/catch, the error
\* leaves the function
EncoderThrow ==
  /\ embPc = "awaitEncoder"
  /\ embeddingCache' = CacheOnEncoderThrow(embeddingCache, embToEmbed)
  /\ embRet' = [kind |-> "throw", value |-> <<>>]
  /\ embPc' = "idle"
  /\ UNCHANGED <<embTexts, embResults, embToEmbed, embIndices, embUpstream,
                 embCacheAtCall, embPrev>>

(***************************************************************************)
(* Query classification                                                    *)
(***************************************************************************)
\* String.prototype.includes
Includes(s, sub) ==
  \E i \in 0..(Len(s) - Len(sub)) : SubSeq(s, i + 1, i + Len(sub)) = sub

\* overviewKeywords of lines 40-44
overviewKeywords ==
  <<<<"o", "v", "e", "r", "v", "i", "e", "w">>,
    <<"s", "u", "m", "m", "a", "r", "y">>,
    <<"s", "u", "m", "m", "a", "r", "i", "z", "e">>,
    <<"c", "h", "a", "p", "t", "e", "r">>,
    <<"i", "n", "t", "r", "o", "d", "u", "c", "t", "i", "o", "n">>,
    <<"i", "n", "t", "r", "o", "d", "u", "c", "e">>,
    <<"w", "h", "a", "t", " ", "i", "s", " ", "c", "o", "v", "e", "r", "e", "d">>,
    <<"m", "a", "i", "n", " ", "t", "o", "p", "i", "c", "s">>,
    <<"k", "e", "y", " ", "c", "o", "n", "c", "e", "p", "t", "s">>,
    <<"o", "u", "t", "l", "i", "n", "e">>>>

\* explanationKeywords of lines 46-49
explanationKeywords ==
  <<<<"e", "x", "p", "l", "a", "i", "n">>,
    <<"d", "e", "s", "c", "r", "i", "b", "e">>,
    <<"w", "h", "a", "t", " ", "i", "s">>,
    <<"h", "o", "w", " ", "d", "o", "e", "s">>,
    <<"d", "e", "f", "i", "n", "e">>,
    <<"t", "e", "l", "l", " ", "m", "e", " ", "a", "b", "o", "u", "t">>,
    <<"e", "l", "a", "b", "o", "r", "a", "t", "e">>>>

\* detectQueryType that tested the explanation cues first
detectQueryTypeExplanationFirst(query) ==
  LET lowerQuery == toLowerCase(query) IN
  IF \E k \in 1..Len(explanationKeywords) : Includes(lowerQuery, explanationKeywords[k])
  THEN "explanation"
  ELSE IF \E k \in 1..Len(overviewKeywords) : Includes(lowerQuery, overviewKeywords[k])
       THEN "overview"
       ELSE "specific"

\* detectQueryType
detectQueryType(query) ==
  LET lowerQuery == toLowerCase(query) IN
  IF \E k \in 1..Len(overviewKeywords) : Includes(lowerQuery, overviewKeywords[k])
  THEN "overview"
  ELSE IF \E k \in 1..Len(explanationKeywords) : Includes(lowerQuery, explanationKeywords[k])
       THEN "explanation"
       ELSE "specific"

\* detectQueryType of the chat route (part_004 456-479): the same two keyword lists,
\* literal by literal, and the same two tests in the same order
detectQueryTypeOfRoute(query) ==
  LET lowerQuery == toLowerCase(query) IN
  IF \E k \in 1..Len(overviewKeywords) : Includes(lowerQuery, overviewKeywords[k])
  THEN "overview"
  ELSE IF \E k \in 1..Len(explanationKeywords) : Includes(lowerQuery, explanationKeywords[k])
       THEN "explanation"
       ELSE "specific"

\* queries asked: "Outline a" (overview) and "b c" (specific)
QueryOutline == <<"O", "u", "t", "l", "i", "n", "e", " ", "a">>
QueryBC == <<"b", " ", "c">>
Queries == {QueryOutline, QueryBC}

\* structuralQueries of lines 677-680
structuralQueries ==
  <<<<"i", "n", "t", "r", "o", "d", "u", "c", "t", "i", "o", "n", " ", "o", "b", "j", "e", "c", "t", "i", "v", "e", "s", " ", "l", "e", "a", "r", "n", "i", "n", "g", " ", "o", "u", "t", "c", "o", "m", "e", "s">>,
    <<"k", "e", "y", " ", "c", "o", "n", "c", "e", "p", "t", "s", " ", "m", "a", "i", "n", " ", "t", "o", "p", "i", "c", "s", " ", "d", "e", "f", "i", "n", "i", "t", "i", "o", "n", "s">>>>

(***************************************************************************)
(* Array.prototype.sort as V8 runs it on arrays shorter than 64 elements:  *)
(* the leading run is found (and reversed when strictly descending), the   *)
(* rest is inserted by binary insertion.  cmp[i][j] is the comparator's    *)
(* result on the elements at original positions i and j; the result is the *)
(* sequence of original positions in sorted order.                         *)
(***************************************************************************)
\* CountAndMakeRun: length of the run starting at position 1 of perm
RECURSIVE RunLength(_, _, _, _)
RunLength(perm, cmp, isDescending, idx) ==
  IF idx > Len(perm) THEN idx - 1
  ELSE LET order == cmp[perm[idx]][perm[idx - 1]] IN
       IF (isDescending /\ order >= 0) \/ (~isDescending /\ order < 0)
       THEN idx - 1
       ELSE RunLength(perm, cmp, isDescending, idx + 1)

Reverse(seq) == [i \in 1..Len(seq) |-> seq[Len(seq) + 1 - i]]

\* the binary search of BinaryInsertionSort: where pivot goes in perm[left+1..right]
RECURSIVE InsertionPoint(_, _, _, _, _)
InsertionPoint(perm, cmp, pivot, left, right) ==
  IF left >= right THEN left
  ELSE LET mid == left + ((right - left) \div 2) IN
       IF cmp[pivot][perm[mid + 1]] < 0
       THEN InsertionPoint(perm, cmp, pivot, left, mid)
       ELSE InsertionPoint(perm, cmp, pivot, mid + 1, right)

\* BinaryInsertionSort from position start (1-based) on; perm[1..start-1] is sorted
RECURSIVE BinaryInsertionSort(_, _, _)
BinaryInsertionSort(perm, cmp, start) ==
  IF start > Len(perm) THEN perm
  ELSE LET pivot == perm[start]
           left == InsertionPoint(perm, cmp, pivot, 0, start - 1)
           moved == [i \in 1..Len(perm) |->
                       IF i <= left THEN perm[i]
                       ELSE IF i = left + 1 THEN pivot
                       ELSE IF i <= start THEN perm[i - 1]
                       ELSE perm[i]]
       IN BinaryInsertionSort(moved, cmp, start + 1)

\* Array.prototype.sort on n elements
ArraySort(n, cmp) ==
  LET perm == [i \in 1..n |-> i] IN
  IF n < 2 THEN perm
  ELSE LET isDescending == cmp[2][1] < 0
           run == RunLength(perm, cmp, isDescending, 3)
           made == IF isDescending
                   THEN [i \in 1..n |-> IF i <= run THEN perm[run + 1 - i] ELSE perm[i]]
                   ELSE perm
       IN BinaryInsertionSort(made, cmp, run + 1)

(***************************************************************************)
(* Diversity filter                                                        *)
(***************************************************************************)
\* calculateSimilarity: Jaccard similarity of the lowercased, whitespace-split word
\* sets, as the pair <<|intersection|, |union|>> (the union is never empty: the
\* split of any string has at least one piece)
calculateSimilarity(text1, text2) ==
  LET words1 == Range(SplitWs(toLowerCase(text1)))
      words2 == Range(SplitWs(toLowerCase(text2)))
  IN <<Cardinality(words1 \cap words2), Cardinality(words1 \cup words2)>>

\* similarity > threshold of line 980, on exact fractions
SimilarityAbove(sim, threshold) == sim[1] * threshold[2] > threshold[1] * sim[2]

\* a check against the most recently selected document only
IsDiverseAgainstLast(documents, selected, i, threshold) ==
  \/ selected = <<>>
  \/ ~SimilarityAbove(calculateSimilarity(documents[i], documents[selected[Len(selected)]]),
                      threshold)

\* applyDiversityFilter, the inner loop of lines 976-984
IsDiverse(documents, selected, i, threshold) ==
  \A k \in 1..Len(selected) :
     ~SimilarityAbove(calculateSimilarity(documents[i], documents[selected[k]]), threshold)

\* applyDiversityFilter, the outer loop of lines 974-989 from index i on
RECURSIVE DiversityLoop(_, _, _, _, _)
DiversityLoop(documents, threshold, maxResults, selected, i) ==
  IF ~(i <= Len(documents) /\ Len(selected) < maxResults) THEN selected
  ELSE DiversityLoop(documents, threshold, maxResults,
                     IF IsDiverse(documents, selected, i, threshold)
                     THEN Append(selected, i) ELSE selected,
                     i + 1)

\* a filter whose loop does not stop at maxResults
applyDiversityFilterUnbounded(documents, threshold, maxResults) ==
  DiversityLoop(documents, threshold, Len(documents), <<>>, 1)

\* applyDiversityFilter: the accepted indices, in acceptance order
applyDiversityFilter(documents, threshold, maxResults) ==
  DiversityLoop(documents, threshold, maxResults, <<>>, 1)

\* thresholds tried: 0, 1/2, 7/10 (the default of queryDocuments) and 1
Thresholds == {<<0, 1>>, <<1, 2>>, <<7, 10>>, <<1, 1>>}

\* the filter is called on a list of documents
DivCall ==
  /\ divSelected = "none"
  /\ divSelected' = applyDiversityFilter(divDocs, divThreshold, divMax)
  /\ UNCHANGED <<divDocs, divThreshold, divMax>>

(***************************************************************************)
(* Ingestion: createChatFile, processDocument, processAndStoreDocument     *)
(*                                                                         *)
(* Each step runs from one await to the next.  The chatFile table is taken *)
(* to accept every write (updateFileEmbeddingStatus and updateFileMetadata *)
(* resolve); the fetch, the extraction, the splitter, the encoder and the  *)
(* vector store may each reject.                                           *)
(***************************************************************************)
FileIds == {"f1", "f2"}
\* the file whose ingestion races with its deletion
RaceFileIds == {"f1"}
NoFile == [embeddingStatus |-> "absent", fileType |-> "absent", hasMetadata |-> FALSE]
\* the store holds no collection of that name (a one-record marker that no
\* ingestion can write)
NoCollection ==
  <<[id |-> <<"no collection", "", 0>>, document |-> <<>>,
     metadata |-> [fileId |-> "", chunkIndex |-> 0, totalChunks |-> 0,
                   hasPdfMetadata |-> FALSE]]>>
NoEmb == [results |-> <<>>, textsToEmbed |-> <<>>, indices |-> <<>>]

\* isValidDocumentType (the Word types behave like text/plain here and are left out)
isValidDocumentType(mimeType) ==
  mimeType \in {"application/pdf", "text/plain", "text/markdown", "text/csv"}

\* MIME types of uploaded files: a PDF (extraction yields metadata), a plain text
\* and a type outside the supported set
UploadTypes == {"application/pdf", "text/plain", "image/png"}

\* texts an extraction may yield: "", " " and "a b"
ExtractedTexts == {DocNone, <<" ">>, DocAB}

\* chunk texts splitText may cut: "a b" and "b c"
ChunkTexts == {DocAB, DocBC}

\* the chunks of a document that splitText cuts into n chunks: "a b", "b c", "a b", ...
DocumentChunks(n) == [k \in 1..n |-> IF k % 2 = 1 THEN DocAB ELSE DocBC]

\* !text || text.trim().length === 0 of line 432
IsBlankText(text) == \A i \in 1..Len(text) : text[i] \in Whitespace

\* `${fileId}_chunk_${i}` of line 449 (i is the 0-based index)
ChunkId(fileId, i) == <<fileId, "_chunk_", i>>

\* chunk records numbered from 1 instead of 0
ChunkRecordsFromOne(fileId, chunks, hasMetadata) ==
  [k \in 1..Len(chunks) |->
     [id |-> ChunkId(fileId, k),
      document |-> chunks[k],
      metadata |-> [fileId |-> fileId, chunkIndex |-> k,
                    totalChunks |-> Len(chunks), hasPdfMetadata |-> hasMetadata]]]

\* the records handed to collection.add, lines 449-464 (the store keeps the
\* embedding of a record to itself: nothing reads it back, so it is not kept here)
ChunkRecords(fileId, chunks, hasMetadata) ==
  [k \in 1..Len(chunks) |->
     [id |-> ChunkId(fileId, k - 1),
      document |-> chunks[k],
      metadata |-> [fileId |-> fileId, chunkIndex |-> k - 1,
                    totalChunks |-> Len(chunks), hasPdfMetadata |-> hasMetadata]]]

\* updateFileEmbeddingStatus: the row's embeddingStatus is overwritten; the UPDATE
\* of a row that is gone changes nothing and does not fail
SetStatus(f, status) ==
  IF files[f] = NoFile
  THEN UNCHANGED <<files, statusLog>>
  ELSE /\ files' = [files EXCEPT ![f].embeddingStatus = status]
       /\ statusLog' = [statusLog EXCEPT ![f] = Append(@, status)]

\* the catch of processDocument when it only logged the error
IngCatchLogsOnly(f) ==
  /\ ingPc[f] = "catch"
  /\ ingRet' = [ingRet EXCEPT ![f] = "throw"]
  /\ ingPc' = [ingPc EXCEPT ![f] = "done"]
  /\ ingChunks' = [ingChunks EXCEPT ![f] = <<>>]
  /\ ingEmb' = [ingEmb EXCEPT ![f] = NoEmb]
  /\ UNCHANGED <<files, statusLog, collections, ingAttempts, ingFailedAt, embeddingCache>>
  /\ UNCHANGED ingArgs

\* the catch of processDocument when it put the row back to "pending"
IngCatchResetsToPending(f) ==
  /\ ingPc[f] = "catch"
  /\ SetStatus(f, "pending")
  /\ ingRet' = [ingRet EXCEPT ![f] = "throw"]
  /\ ingPc' = [ingPc EXCEPT ![f] = "done"]
  /\ ingChunks' = [ingChunks EXCEPT ![f] = <<>>]
  /\ ingEmb' = [ingEmb EXCEPT ![f] = NoEmb]
  /\ UNCHANGED <<collections, ingAttempts, ingFailedAt, embeddingCache>>
  /\ UNCHANGED ingArgs

\* a step of processDocument (f) that threw at `stage`: control goes to the catch
IngFail(f, stage) ==
  /\ ingPc' = [ingPc EXCEPT ![f] = "catch"]
  /\ ingFailedAt' = [ingFailedAt EXCEPT ![f] = stage]

\* createChatFile (embeddingStatus "pending") followed by the call of processDocument
Upload(f, fileType) ==
  /\ files[f] = NoFile
  /\ files' = [files EXCEPT ![f] = [embeddingStatus |-> "pending", fileType |-> fileType,
                                    hasMetadata |-> FALSE]]
  /\ statusLog' = [statusLog EXCEPT ![f] = <<"pending">>]
  /\ ingPc' = [ingPc EXCEPT ![f] = "validate"]
  /\ ingArgs' = [ingArgs EXCEPT ![f] = fileType]
  /\ UNCHANGED <<collections, ingRet, ingAttempts, ingFailedAt, ingChunks, ingEmb,
                 embeddingCache>>

\* processDocument lines 17-26: the type check, then the first status write is issued
IngValidate(f) ==
  /\ ingPc[f] = "validate"
  /\ IF isValidDocumentType(ingArgs[f])
     THEN /\ ingPc' = [ingPc EXCEPT ![f] = "markProcessing"]
          /\ UNCHANGED ingFailedAt
     ELSE IngFail(f, "validate")
  /\ UNCHANGED <<files, statusLog, collections, ingRet, ingAttempts, ingChunks, ingEmb,
                 embeddingCache>>
  /\ UNCHANGED ingArgs

\* processDocument lines 23-29: status "processing" is written, then
\* processAndStoreDocument starts with the fetch of line 426
IngMarkProcessing(f) ==
  /\ ingPc[f] = "markProcessing"
  /\ SetStatus(f, "processing")
  /\ ingAttempts' = [ingAttempts EXCEPT ![f] = @ + 1]
  /\ ingPc' = [ingPc EXCEPT ![f] = "fetch"]
  /\ UNCHANGED <<collections, ingRet, ingFailedAt, ingChunks, ingEmb, embeddingCache>>
  /\ UNCHANGED ingArgs

\* processAndStoreDocument lines 426-427: the download resolves or rejects
IngFetch(f) ==
  /\ ingPc[f] = "fetch"
  /\ \/ ingPc' = [ingPc EXCEPT ![f] = "extract"] /\ UNCHANGED ingFailedAt
     \/ IngFail(f, "fetch")
  /\ UNCHANGED <<files, statusLog, collections, ingRet, ingAttempts, ingChunks, ingEmb,
                 embeddingCache>>
  /\ UNCHANGED ingArgs

\* processAndStoreDocument lines 430-437: the extraction rejects, or resolves with a
\* text that the empty-text check of line 432 lets through or not
IngExtract(f) ==
  /\ ingPc[f] = "extract"
  /\ \/ IngFail(f, "extract")
     \/ \E text \in ExtractedTexts :
          IF IsBlankText(text)
          THEN IngFail(f, "emptyText")
          ELSE ingPc' = [ingPc EXCEPT ![f] = "split"] /\ UNCHANGED ingFailedAt
  /\ UNCHANGED <<files, statusLog, collections, ingRet, ingAttempts, ingChunks, ingEmb,
                 embeddingCache>>
  /\ UNCHANGED ingArgs

\* processAndStoreDocument lines 437-440: splitText resolves with the chunks (or
\* rejects) and createEmbeddings runs up to its await
IngSplit(f) ==
  /\ ingPc[f] = "split"
  /\ \/ /\ IngFail(f, "split")
        /\ UNCHANGED <<ingChunks, ingEmb>>
     \/ \E chunks \in {DocumentChunks(n) : n \in 1..MaxChunks} :
          LET c == CacheCheck(chunks, embeddingCache) IN
          /\ ingChunks' = [ingChunks EXCEPT ![f] = chunks]
          /\ ingEmb' = [ingEmb EXCEPT ![f] = c]
          /\ ingPc' = [ingPc EXCEPT ![f] =
                         IF Len(c.textsToEmbed) > 0 THEN "awaitEncoder" ELSE "getCollection"]
          /\ UNCHANGED ingFailedAt
  /\ UNCHANGED <<files, statusLog, collections, ingRet, ingAttempts, embeddingCache>>
  /\ UNCHANGED ingArgs

\* createEmbeddings lines 395-407 inside the ingestion: the encoder resolves
IngEncoderReturn(f) ==
  /\ ingPc[f] = "awaitEncoder"
  /\ \E newEmbeddings \in [1..Len(ingEmb[f].textsToEmbed) ->
                              UNION {EncoderVectors(t) : t \in ChunkTexts}] :
       /\ \A k \in 1..Len(newEmbeddings) :
             newEmbeddings[k] \in EncoderVectors(ingEmb[f].textsToEmbed[k])
       /\ ingEmb' = [ingEmb EXCEPT ![f].results =
                        MergeResults(@, ingEmb[f].indices, newEmbeddings)]
       /\ embeddingCache' = MergeCache(embeddingCache, ingEmb[f].textsToEmbed, newEmbeddings)
  /\ ingPc' = [ingPc EXCEPT ![f] = "getCollection"]
  /\ UNCHANGED <<files, statusLog, collections, ingRet, ingAttempts, ingFailedAt, ingChunks>>
  /\ UNCHANGED ingArgs

\* createEmbeddings line 395 inside the ingestion: the encoder rejects
IngEncoderThrow(f) ==
  /\ ingPc[f] = "awaitEncoder"
  /\ embeddingCache' = CacheOnEncoderThrow(embeddingCache, ingEmb[f].textsToEmbed)
  /\ IngFail(f, "embed")
  /\ UNCHANGED <<files, statusLog, collections, ingRet, ingAttempts, ingChunks, ingEmb>>
  /\ UNCHANGED ingArgs

\* processAndStoreDocument lines 443-446: client.getOrCreateCollection
IngGetOrCreateCollection(f) ==
  /\ ingPc[f] = "getCollection"
  /\ \/ /\ collections' = [collections EXCEPT ![f] =
                               IF @ = NoCollection THEN <<>> ELSE @]
        /\ ingPc' = [ingPc EXCEPT ![f] = "add"]
        /\ UNCHANGED ingFailedAt
     \/ IngFail(f, "getCollection") /\ UNCHANGED collections
  /\ UNCHANGED <<files, statusLog, ingRet, ingAttempts, ingChunks, ingEmb, embeddingCache>>
  /\ UNCHANGED ingArgs

\* processAndStoreDocument lines 448-470 and processDocument lines 36-44:
\* collection.add resolves (the records are in the store) or rejects (the store
\* may or may not have taken the records)
IngAdd(f) ==
  LET records == ChunkRecords(f, ingChunks[f], ingArgs[f] = "application/pdf") IN
  /\ ingPc[f] = "add"
  /\ \/ /\ collections' = [collections EXCEPT ![f] = records]
        /\ ingPc' = [ingPc EXCEPT ![f] =
                       IF ingArgs[f] = "application/pdf"
                       THEN "updateMetadata" ELSE "markCompleted"]
        /\ UNCHANGED ingFailedAt
     \/ /\ IngFail(f, "add")
        /\ collections' \in {collections, [collections EXCEPT ![f] = records]}
  /\ UNCHANGED <<files, statusLog, ingRet, ingAttempts, ingChunks, ingEmb, embeddingCache>>
  /\ UNCHANGED ingArgs

\* processDocument lines 39-44: updateFileMetadata (only a PDF has metadata)
IngUpdateMetadata(f) ==
  /\ ingPc[f] = "updateMetadata"
  /\ files' = IF files[f] = NoFile THEN files ELSE [files EXCEPT ![f].hasMetadata = TRUE]
  /\ ingPc' = [ingPc EXCEPT ![f] = "markCompleted"]
  /\ UNCHANGED <<statusLog, collections, ingRet, ingAttempts, ingFailedAt, ingChunks,
                 ingEmb, embeddingCache>>
  /\ UNCHANGED ingArgs

\* processDocument lines 46-63: status "completed" is written and the run returns
IngMarkCompleted(f) ==
  /\ ingPc[f] = "markCompleted"
  /\ SetStatus(f, "completed")
  /\ ingRet' = [ingRet EXCEPT ![f] = "ok"]
  /\ ingPc' = [ingPc EXCEPT ![f] = "done"]
  /\ ingChunks' = [ingChunks EXCEPT ![f] = <<>>]
  /\ ingEmb' = [ingEmb EXCEPT ![f] = NoEmb]
  /\ UNCHANGED <<collections, ingAttempts, ingFailedAt, embeddingCache>>
  /\ UNCHANGED ingArgs

\* processDocument lines 64-74: status "failed" is written and the error rethrown
IngCatch(f) ==
  /\ ingPc[f] = "catch"
  /\ SetStatus(f, "failed")
  /\ ingRet' = [ingRet EXCEPT ![f] = "throw"]
  /\ ingPc' = [ingPc EXCEPT ![f] = "done"]
  /\ ingChunks' = [ingChunks EXCEPT ![f] = <<>>]
  /\ ingEmb' = [ingEmb EXCEPT ![f] = NoEmb]
  /\ UNCHANGED <<collections, ingAttempts, ingFailedAt, embeddingCache>>
  /\ UNCHANGED ingArgs

IngIdleInit ==
  /\ files = [f \in FileIds |-> NoFile]
  /\ collections = [f \in FileIds |-> NoCollection]
  /\ ingPc = [f \in FileIds |-> "none"]
  /\ ingArgs = [f \in FileIds |-> "absent"]
  /\ ingRet = [f \in FileIds |-> "none"]
  /\ ingAttempts = [f \in FileIds |-> 0]
  /\ ingFailedAt = [f \in FileIds |-> "none"]
  /\ ingChunks = [f \in FileIds |-> <<>>]
  /\ ingEmb = [f \in FileIds |-> NoEmb]
  /\ statusLog = [f \in FileIds |-> <<>>]

(***************************************************************************)
(* Vector store queries                                                    *)
(*                                                                         *)
(* collection.query answers with the nResults nearest records (all of them *)
(* when the collection holds fewer), nearest first.  Which records are     *)
(* near a query vector is the store's business: every ranking and every    *)
(* non-decreasing assignment of distances is a possible answer.            *)
(***************************************************************************)
\* distances a query may report, in hundredths: 0.10 and 0.40 (with the +0.1 of a
\* structural answer: 0.20 and 0.50, so that 0.40 - 0.20 is exactly the 0.2 of
\* line 738, in floating point as well)
DistSet == {10, 40}

Min(a, b) == IF a <= b THEN a ELSE b

\* the answers collection.query may give on `collection` for nResults = n:
\* sequences of [id, document, metadata, distance]
QueryResponses(collection, n) ==
  LET k == Min(n, Len(collection))
      picks == {r \in [1..k -> (1..Len(collection)) \X DistSet] :
                  /\ \A i \in 1..k : \A j \in 1..k : (i # j) => r[i][1] # r[j][1]
                  /\ \A i \in 1..(k - 1) : r[i][2] <= r[i + 1][2]}
  IN {[i \in 1..k |-> [id |-> collection[r[i][1]].id,
                        document |-> collection[r[i][1]].document,
                        metadata |-> collection[r[i][1]].metadata,
                        distance |-> r[i][2]]] : r \in picks}

\* the collections a finished ingestion leaves behind: none, an empty one (the add
\* failed) or the chunk records of a document
StoredCollections(f) ==
  {NoCollection} \cup {ChunkRecords(f, DocumentChunks(n), FALSE) : n \in 0..MaxChunks}

(***************************************************************************)
(* retrieveOverviewContextForFile                                          *)
(***************************************************************************)
\* Math.floor(nResults * 0.6) of line 669
semanticBudget(nResults) == (nResults * 6) \div 10

\* Math.floor(nResults * 0.4) of line 682
structuralBudget(nResults) == (nResults * 4) \div 10

\* each structural probe asking for the whole structural budget
probeBudgetUndivided(nResults) == structuralBudget(nResults)

\* Math.floor(structuralBudget / structuralQueries.length) of line 695
probeBudget(nResults) == structuralBudget(nResults) \div Len(structuralQueries)

\* the accumulator of lines 701-704
NoneAdded == [allIds |-> <<>>, all |-> <<>>]

\* addResults that pushed every fetched chunk, seen before or not
RECURSIVE addResultsWithoutIdCheck(_, _, _)
addResultsWithoutIdCheck(acc, results, baseScore) ==
  IF results = <<>> THEN acc
  ELSE LET r == Head(results) IN
       addResultsWithoutIdCheck(
         [allIds |-> Append(acc.allIds, r.id),
          all |-> Append(acc.all, [document |-> r.document, metadata |-> r.metadata,
                                   distance |-> r.distance + baseScore])],
         Tail(results), baseScore)

\* addResults of lines 706-718: a chunk whose id was seen before is skipped
RECURSIVE addResults(_, _, _)
addResults(acc, results, baseScore) ==
  IF results = <<>> THEN acc
  ELSE LET r == Head(results) IN
       addResults(
         IF r.id \notin Range(acc.allIds)
         THEN [allIds |-> Append(acc.allIds, r.id),
               all |-> Append(acc.all, [document |-> r.document, metadata |-> r.metadata,
                                        distance |-> r.distance + baseScore])]
         ELSE acc,
         Tail(results), baseScore)

\* lines 720-726: the semantic results, then each structural result with +0.1
RECURSIVE addStructural(_, _)
addStructural(acc, structuralResults) ==
  IF structuralResults = <<>> THEN acc
  ELSE addStructural(addResults(acc, Head(structuralResults), 10), Tail(structuralResults))

Abs(x) == IF x < 0 THEN -x ELSE x

\* a comparator that looks at the distances alone
overviewCompareByDistance(a, b) == a.distance - b.distance

\* the comparator of lines 736-742
overviewCompare(a, b) ==
  LET scoreDiff == a.distance - b.distance IN
  IF Abs(scoreDiff) > 20 THEN scoreDiff
  ELSE a.metadata.chunkIndex - b.metadata.chunkIndex

\* lines 728-751: sort, slice(0, nResults), and the three output arrays
overviewRank(all, nResults) ==
  LET cmp == [i \in 1..Len(all) |-> [j \in 1..Len(all) |-> overviewCompare(all[i], all[j])]]
      perm == ArraySort(Len(all), cmp)
      indexed == [i \in 1..Len(all) |-> all[perm[i]]]
  IN SubSeq(indexed, 1, Min(nResults, Len(indexed)))

\* lines 700-751: the per-file result from the probes' answers
overviewFuse(semanticResults, structuralResults, nResults) ==
  overviewRank(addStructural(addResults(NoneAdded, semanticResults, 0), structuralResults).all,
               nResults)

\* lines 761-766 and 553-558: the three arrays of a plain query answer
plainResult(results) ==
  [i \in 1..Len(results) |-> [document |-> results[i].document,
                               metadata |-> results[i].metadata,
                               distance |-> results[i].distance]]

\* retrieveOverviewContextForFile is entered: the semantic query of line 671 is sent
OvCall(fileId, nResults) ==
  /\ ovPc = "idle"
  /\ ovArgs' = [fileId |-> fileId, nResults |-> nResults]
  /\ ovPc' = "semantic"
  /\ UNCHANGED <<ovSemantic, ovStructural, ovRet, embeddingCache>>

\* lines 671-698: the semantic query resolves; each structural callback runs up to
\* its first await (the encoder on a cache miss, the probe query on a hit)
OvSemanticReturn ==
  /\ ovPc = "semantic"
  /\ ovSemantic' \in QueryResponses(collections[ovArgs.fileId], semanticBudget(ovArgs.nResults))
  /\ ovStructural' = [k \in 1..Len(structuralQueries) |->
                        [pc |-> IF getCacheKey(structuralQueries[k]) \in DOMAIN embeddingCache
                                THEN "query" ELSE "embed",
                         results |-> <<>>]]
  /\ ovPc' = "structural"
  /\ UNCHANGED <<ovArgs, ovRet, embeddingCache>>

\* line 671 rejects: the catch of line 753 sends the fallback query of line 756
OvSemanticThrow ==
  /\ ovPc = "semantic"
  /\ ovPc' = "fallback"
  /\ UNCHANGED <<ovArgs, ovSemantic, ovStructural, ovRet, embeddingCache>>

\* the probes once the callback of structural query k rejected: the answers the
\* others gave or will give are dropped with the rejected Promise.all
ProbesAbandoned(k) ==
  [l \in 1..Len(ovStructural) |->
     [pc |-> IF l = k THEN "failed" ELSE ovStructural[l].pc, results |-> <<>>]]

\* lines 689-696: the encoder resolves for structural query k, the vector is cached
\* and the probe query is sent (also when the call has meanwhile gone to its catch)
OvProbeEmbedReturn(k) ==
  /\ ovPc \in {"structural", "fallback", "done"}
  /\ k \in DOMAIN ovStructural
  /\ ovStructural[k].pc = "embed"
  /\ \E vec \in EncoderVectors(structuralQueries[k]) :
       embeddingCache' = CacheSet(embeddingCache, getCacheKey(structuralQueries[k]), vec)
  /\ ovStructural' = [ovStructural EXCEPT ![k].pc = "query"]
  /\ UNCHANGED <<ovPc, ovArgs, ovSemantic, ovRet>>

\* line 689 rejects for structural query k: Promise.all rejects, the catch of line
\* 753 sends the fallback query
OvProbeEmbedThrow(k) ==
  /\ ovPc = "structural"
  /\ ovStructural[k].pc = "embed"
  /\ ovStructural' = ProbesAbandoned(k)
  /\ ovSemantic' = <<>>
  /\ ovPc' = "fallback"
  /\ UNCHANGED <<ovArgs, ovRet, embeddingCache>>

\* lines 693-696: the probe query of structural query k resolves
OvProbeQueryReturn(k) ==
  /\ ovPc = "structural"
  /\ ovStructural[k].pc = "query"
  /\ \E results \in QueryResponses(collections[ovArgs.fileId], probeBudget(ovArgs.nResults)) :
       ovStructural' = [ovStructural EXCEPT ![k] = [pc |-> "done", results |-> results]]
  /\ UNCHANGED <<ovPc, ovArgs, ovSemantic, ovRet, embeddingCache>>

\* lines 693-696: the probe query of structural query k rejects
OvProbeQueryThrow(k) ==
  /\ ovPc = "structural"
  /\ ovStructural[k].pc = "query"
  /\ ovStructural' = ProbesAbandoned(k)
  /\ ovSemantic' = <<>>
  /\ ovPc' = "fallback"
  /\ UNCHANGED <<ovArgs, ovRet, embeddingCache>>

\* lines 700-751: Promise.all resolved; dedup, sort, slice, return
OvFuse ==
  /\ ovPc = "structural"
  /\ \A k \in 1..Len(ovStructural) : ovStructural[k].pc = "done"
  /\ ovRet' = [kind |-> "fused",
               value |-> overviewFuse(ovSemantic,
                                      [k \in 1..Len(ovStructural) |-> ovStructural[k].results],
                                      ovArgs.nResults)]
  /\ ovPc' = "done"
  /\ UNCHANGED <<ovArgs, ovSemantic, ovStructural, embeddingCache>>

\* lines 756-766: the fallback query resolves
OvFallbackReturn ==
  /\ ovPc = "fallback"
  /\ \E results \in QueryResponses(collections[ovArgs.fileId], ovArgs.nResults) :
       ovRet' = [kind |-> "fallback", value |-> plainResult(results)]
  /\ ovPc' = "done"
  /\ UNCHANGED <<ovArgs, ovSemantic, ovStructural, embeddingCache>>

\* line 756 rejects: the error leaves retrieveOverviewContextForFile
OvFallbackThrow ==
  /\ ovPc = "fallback"
  /\ ovRet' = [kind |-> "throw", value |-> <<>>]
  /\ ovPc' = "done"
  /\ UNCHANGED <<ovArgs, ovSemantic, ovStructural, embeddingCache>>

(***************************************************************************)
(* rerankByRelevance                                                       *)
(*                                                                         *)
(* Scores are kept as exact fractions <<numerator, denominator>>.          *)
(***************************************************************************)
\* queryTerms of line 1026
queryTerms(query) == SplitWs(toLowerCase(query))

\* keywordMatches of line 1031
keywordMatches(query, doc) ==
  Cardinality({k \in 1..Len(queryTerms(query)) :
                 Includes(toLowerCase(doc), queryTerms(query)[k])})

\* a score that adds the three components up without their weights
finalScoreUnweighted(query, doc, metadata, distance) ==
  LET q == Len(queryTerms(query))
      m == keywordMatches(query, doc)
      ci == metadata.chunkIndex
      tc == IF metadata.totalChunks = 0 THEN 1 ELSE metadata.totalChunks
  IN <<10 * (100 - distance) * q * tc + 1000 * m * tc + 10 * q * (10 * tc - ci),
       1000 * q * tc>>

\* finalScore of lines 1032-1043 for one chunk: with q query terms, m of them
\* matched, distance d hundredths, chunk ci of tc,
\*   0.6 * (1 - d/100) + 0.3 * m/q + 0.1 * (ci = 0 ? 1 : 1 - (ci/tc) * 0.1)
finalScore(query, doc, metadata, distance) ==
  LET q == Len(queryTerms(query))
      m == keywordMatches(query, doc)
      ci == metadata.chunkIndex
      tc == IF metadata.totalChunks = 0 THEN 1 ELSE metadata.totalChunks
  IN <<6 * (100 - distance) * q * tc + 300 * m * tc + 10 * q * (10 * tc - ci),
       1000 * q * tc>>

\* a.score - b.score, as a sign: the lowest score first
rerankCompareAscending(sa, sb) ==
  IF sa[1] * sb[2] > sb[1] * sa[2] THEN 1
  ELSE IF sa[1] * sb[2] < sb[1] * sa[2] THEN -1 ELSE 0

\* b.score - a.score of line 1055, as a sign
rerankCompare(sa, sb) ==
  IF sb[1] * sa[2] > sa[1] * sb[2] THEN 1
  ELSE IF sb[1] * sa[2] < sa[1] * sb[2] THEN -1 ELSE 0

\* rerankByRelevance: the positions of the input in the order of the output
rerankByRelevance(query, documents, metadatas, distances, topK) ==
  LET n == Len(documents)
      score == [i \in 1..n |-> finalScore(query, documents[i], metadatas[i], distances[i])]
      cmp == [i \in 1..n |-> [j \in 1..n |-> rerankCompare(score[i], score[j])]]
      perm == ArraySort(n, cmp)
  IN SubSeq(perm, 1, Min(topK, n))

\* the scoring callback of lines 1028-1053 run on one chunk
ScoreCall ==
  /\ scoreValue = <<0, 0>>
  /\ scoreValue' = finalScore(scoreArgs.query, scoreArgs.document,
                              [chunkIndex |-> scoreArgs.chunkIndex,
                               totalChunks |-> scoreArgs.totalChunks],
                              scoreArgs.distance)
  /\ UNCHANGED scoreArgs

(***************************************************************************)
(* queryDocuments                                                          *)
(*                                                                         *)
(* The call runs to the await of the encoder (line 521), then the per-file *)
(* callbacks of lines 531-568 settle one by one in any order, then         *)
(* Promise.all resolves and lines 574-632 run to the return.  A per-file   *)
(* callback is taken as one step from its getCollection to its return.     *)
(***************************************************************************)
\* the result of lines 505-511 and 636-642
EmptyResult ==
  [documents |-> <<>>, metadatas |-> <<>>, distances |-> <<>>,
   totalChunks |-> 0, filesQueried |-> <<>>]

\* a fileIds test that never sees the empty list
NoFileIdsIgnored(fileIds) == FALSE

\* fileIds.length === 0 of line 503
NoFileIds(fileIds) == Len(fileIds) = 0

\* Math.ceil(nResults / fileIds.length) of line 527
resultsPerFile(nResults, fileIds) == (nResults + Len(fileIds) - 1) \div Len(fileIds)

\* initialNResults without the factor of line 528
initialNResultsNoOverfetch(nResults, fileIds, rerankResults) ==
  resultsPerFile(nResults, fileIds)

\* line 528
initialNResults(nResults, fileIds, rerankResults) ==
  IF rerankResults THEN resultsPerFile(nResults, fileIds) * 3
  ELSE resultsPerFile(nResults, fileIds)

\* nResults of the standard query, line 549
standardRequest(args) == initialNResults(args.nResults, args.fileIds, args.rerankResults)

\* nResults handed to retrieveOverviewContextForFile, line 542
overviewBudget(args) == resultsPerFile(args.nResults, args.fileIds)

\* nResults of the queries retrieveOverviewContextForFile issues for budget n: the
\* semantic query (671-674) and one query per structural probe (693-696); when one
\* of them rejects, the fallback query (755-758) follows those already issued
overviewRequests(n) ==
  LET probes == [k \in 1..Len(structuralQueries) |-> probeBudget(n)] IN
  {<<semanticBudget(n)>> \o probes,
   <<semanticBudget(n), n>>,
   <<semanticBudget(n)>> \o probes \o <<n>>}

\* a per-file callback not yet settled
TaskPending == [settled |-> FALSE, result |-> <<>>]

\* fileIds.map(async ...) of line 531: every callback is started
StartTasks(fileIds) == [i \in 1..Len(fileIds) |-> TaskPending]

\* what retrieveOverviewContextForFile may return for budget n: the fused answer
\* of three probes or the answer of the fallback query
OverviewReturns(collection, n) ==
  {overviewFuse(sem, <<p1, p2>>, n) :
     sem \in QueryResponses(collection, semanticBudget(n)),
     p1 \in QueryResponses(collection, probeBudget(n)),
     p2 \in QueryResponses(collection, probeBudget(n))}
  \cup {plainResult(r) : r \in QueryResponses(collection, n)}

\* the caches retrieveOverviewContextForFile may leave: a structural query that was
\* cached when queryDocuments was called keeps its vector, any other may have been
\* embedded (lines 687-691)
OverviewCaches(cache, cacheAtCall) ==
  LET missing == {k \in 1..Len(structuralQueries) :
                    getCacheKey(structuralQueries[k]) \notin DOMAIN cacheAtCall}
      keyOf(k) == getCacheKey(structuralQueries[k])
  IN {[key \in DOMAIN cache \cup {keyOf(k) : k \in K} |->
         IF \E k \in K : keyOf(k) = key THEN <<"vec", key[2], v>> ELSE cache[key]] :
        K \in SUBSET missing, v \in 0..(EncoderVersions - 1)}

\* the catch of lines 559-567 when it let the error go on to Promise.all and so
\* to the catch of line 634
PerFileCatchRethrows(i) ==
  /\ qCaught' = "per-file"
  /\ qRet' = [kind |-> "ok", value |-> EmptyResult]
  /\ qPc' = "done"
  /\ qTasks' = [k \in 1..Len(qTasks) |-> [settled |-> TRUE, result |-> <<>>]]
  /\ qTaskThrew' = [qTaskThrew EXCEPT ![i] = TRUE]
  /\ qOrder' = Append(qOrder, i)

\* the catch of lines 559-567: the callback resolves with an empty per-file result
PerFileCatch(i) ==
  /\ qTasks' = [qTasks EXCEPT ![i] = [settled |-> TRUE, result |-> <<>>]]
  /\ qTaskThrew' = [qTaskThrew EXCEPT ![i] = TRUE]
  /\ qOrder' = Append(qOrder, i)
  /\ UNCHANGED <<qPc, qRet, qCaught>>

\* a per-file callback resolves with `result`
PerFileReturn(i, result) ==
  /\ qTasks' = [qTasks EXCEPT ![i] = [settled |-> TRUE, result |-> result]]
  /\ qOrder' = Append(qOrder, i)
  /\ UNCHANGED <<qPc, qRet, qCaught, qTaskThrew>>

\* the catch of lines 634-643 when it threw the error on to the caller
OuterCatchRethrows(cause) ==
  /\ qCaught' = cause
  /\ qRet' = [kind |-> "throw", value |-> EmptyResult]
  /\ qPc' = "done"

\* the catch of lines 634-643: the error is logged, the empty result returned
OuterCatch(cause) ==
  /\ qCaught' = cause
  /\ qRet' = [kind |-> "ok", value |-> EmptyResult]
  /\ qPc' = "done"

\* queryDocuments is called: lines 501-524 up to the first await, and on a cache
\* hit on to line 531 where every per-file callback is started
QCall(args) ==
  /\ qPc = "idle"
  /\ qArgs' = args
  /\ qCacheAtCall' = embeddingCache
  /\ qCaught' = "none"
  /\ qStoreCalls' = 0
  /\ IF NoFileIds(args.fileIds)
     THEN /\ qRet' = [kind |-> "ok", value |-> EmptyResult]
          /\ qPc' = "done"
          /\ qEncoderCalls' = 0
          /\ UNCHANGED <<qEmbedding, qTasks, qTaskThrew, qOrder>>
     ELSE IF getCacheKey(args.query) \in DOMAIN embeddingCache
     THEN /\ qEmbedding' = embeddingCache[getCacheKey(args.query)]
          /\ qTasks' = StartTasks(args.fileIds)
          /\ qTaskThrew' = [i \in 1..Len(args.fileIds) |-> FALSE]
          /\ qOrder' = <<>>
          /\ qPc' = "files"
          /\ qEncoderCalls' = 0
          /\ UNCHANGED qRet
     ELSE /\ qPc' = "embedding"
          /\ qEncoderCalls' = 1
          /\ UNCHANGED <<qEmbedding, qTasks, qTaskThrew, qOrder, qRet>>
  /\ UNCHANGED embeddingCache

\* lines 521-531: the encoder resolves, the vector is cached, the callbacks start
QEncoderReturn ==
  /\ qPc = "embedding"
  /\ \E vec \in EncoderVectors(qArgs.query) :
       /\ qEmbedding' = vec
       /\ embeddingCache' = CacheSet(embeddingCache, getCacheKey(qArgs.query), vec)
  /\ qTasks' = StartTasks(qArgs.fileIds)
  /\ qTaskThrew' = [i \in 1..Len(qArgs.fileIds) |-> FALSE]
  /\ qOrder' = <<>>
  /\ qPc' = "files"
  /\ UNCHANGED <<qArgs, qRet, qEncoderCalls, qStoreCalls, qCacheAtCall, qCaught>>

\* line 521 rejects: control goes to the catch of line 634
QEncoderThrow ==
  /\ qPc = "embedding"
  /\ OuterCatch("encoding")
  /\ UNCHANGED <<qArgs, qEmbedding, qTasks, qTaskThrew, qOrder, qEncoderCalls, qStoreCalls,
                 qCacheAtCall, embeddingCache>>

\* lines 532-567, callback i: getCollection or a query rejects (getCollection
\* always does when the file has no collection)
QFileThrow(i) ==
  /\ qPc = "files"
  /\ ~qTasks[i].settled
  /\ PerFileCatch(i)
  /\ qStoreCalls' = qStoreCalls + 1
  /\ \/ UNCHANGED embeddingCache
     \/ /\ collections[qArgs.fileIds[i]] # NoCollection
        /\ qArgs.enableSmartRetrieval
        /\ detectQueryType(qArgs.query) = "overview"
        /\ embeddingCache' \in OverviewCaches(embeddingCache, qCacheAtCall)
  /\ UNCHANGED <<qArgs, qEmbedding, qEncoderCalls, qCacheAtCall>>

\* lines 547-558, callback i: the standard query resolves
QFileStandard(i) ==
  /\ qPc = "files"
  /\ ~qTasks[i].settled
  /\ collections[qArgs.fileIds[i]] # NoCollection
  /\ ~(qArgs.enableSmartRetrieval /\ detectQueryType(qArgs.query) = "overview")
  /\ \E r \in QueryResponses(collections[qArgs.fileIds[i]], standardRequest(qArgs)) :
       PerFileReturn(i, plainResult(r))
  /\ qStoreCalls' = qStoreCalls + 1
  /\ UNCHANGED <<qArgs, qEmbedding, qEncoderCalls, qCacheAtCall, embeddingCache>>

\* lines 536-544, callback i: retrieveOverviewContextForFile resolves
QFileOverview(i) ==
  /\ qPc = "files"
  /\ ~qTasks[i].settled
  /\ collections[qArgs.fileIds[i]] # NoCollection
  /\ qArgs.enableSmartRetrieval
  /\ detectQueryType(qArgs.query) = "overview"
  /\ \E result \in OverviewReturns(collections[qArgs.fileIds[i]], overviewBudget(qArgs)) :
       PerFileReturn(i, result)
  /\ embeddingCache' \in OverviewCaches(embeddingCache, qCacheAtCall)
  /\ qStoreCalls' = qStoreCalls + 1
  /\ UNCHANGED <<qArgs, qEmbedding, qEncoderCalls, qCacheAtCall>>

\* the per-file results flattened in the order the callbacks settled
RECURSIVE combineAsSettled(_, _, _)
combineAsSettled(fileIds, tasks, i) ==
  IF i > Len(qOrder) THEN <<>>
  ELSE [k \in 1..Len(tasks[qOrder[i]].result) |->
          [document |-> tasks[qOrder[i]].result[k].document,
           metadata |-> tasks[qOrder[i]].result[k].metadata,
           distance |-> tasks[qOrder[i]].result[k].distance,
           fileId |-> fileIds[qOrder[i]]]]
       \o combineAsSettled(fileIds, tasks, i + 1)

\* lines 574-580: the per-file results flattened in fileIds order
RECURSIVE combine(_, _, _)
combine(fileIds, tasks, i) ==
  IF i > Len(tasks) THEN <<>>
  ELSE [k \in 1..Len(tasks[i].result) |->
          [document |-> tasks[i].result[k].document,
           metadata |-> tasks[i].result[k].metadata,
           distance |-> tasks[i].result[k].distance,
           fileId |-> fileIds[i]]]
       \o combine(fileIds, tasks, i + 1)

\* a sort with the comparator turned round: farthest first
sortByDistanceDescending(combined) ==
  LET n == Len(combined)
      cmp == [i \in 1..n |-> [j \in 1..n |-> combined[j].distance - combined[i].distance]]
      perm == ArraySort(n, cmp)
  IN [i \in 1..n |-> combined[perm[i]]]

\* line 583: combined.sort((a, b) => a.distance - b.distance)
sortByDistance(combined) ==
  LET n == Len(combined)
      cmp == [i \in 1..n |-> [j \in 1..n |-> combined[i].distance - combined[j].distance]]
      perm == ArraySort(n, cmp)
  IN [i \in 1..n |-> combined[perm[i]]]

\* every requested file listed, whether it contributed or not
filesQueriedAll(fileIds, tasks) == fileIds

\* lines 590-593
filesQueriedOf(fileIds, tasks) ==
  LET contributed == SelectSeq([i \in 1..Len(tasks) |-> i],
                               LAMBDA i : Len(tasks[i].result) > 0)
  IN [k \in 1..Len(contributed) |-> fileIds[contributed[k]]]

\* lines 583-632 on the flattened per-file results: sort, diversity filter,
\* reranking, the returned object
\* every fused chunk is handed on, the surplus is left to the reranker
diverseIndicesKeepAll(args, documents) == [i \in 1..Len(documents) |-> i]

\* lines 595-608: the positions of the fused list that are handed on; the filter
\* runs only on a list longer than nResults
diverseIndices(args, documents) ==
  IF Len(documents) > args.nResults
  THEN applyDiversityFilter(documents, args.diversityThreshold, args.nResults)
  ELSE [i \in 1..Len(documents) |-> i]

fuseList(args, flattened, tasks) ==
  LET combined == sortByDistance(flattened)
      documents == [i \in 1..Len(combined) |-> combined[i].document]
      metadatas == [i \in 1..Len(combined) |-> combined[i].metadata]
      distances == [i \in 1..Len(combined) |-> combined[i].distance]
      diverse == diverseIndices(args, documents)
      documents2 == [i \in 1..Len(diverse) |-> documents[diverse[i]]]
      metadatas2 == [i \in 1..Len(diverse) |-> metadatas[diverse[i]]]
      distances2 == [i \in 1..Len(diverse) |-> distances[diverse[i]]]
      reranked == IF args.rerankResults /\ Len(documents2) > 0
                  THEN rerankByRelevance(args.query, documents2, metadatas2, distances2,
                                         args.nResults)
                  ELSE [i \in 1..Len(documents2) |-> i]
  IN [documents |-> [i \in 1..Len(reranked) |-> documents2[reranked[i]]],
      metadatas |-> [i \in 1..Len(reranked) |-> metadatas2[reranked[i]]],
      distances |-> [i \in 1..Len(reranked) |-> distances2[reranked[i]]],
      totalChunks |-> Len(documents),
      filesQueried |-> filesQueriedOf(args.fileIds, tasks)]

\* lines 574-632: Promise.all hands over the per-file results in the order of fileIds
fuse(args, tasks) == fuseList(args, combine(args.fileIds, tasks, 1), tasks)

\* line 571 resolves (every callback has settled) and lines 574-632 run
QFuse ==
  /\ qPc = "files"
  /\ \A i \in 1..Len(qTasks) : qTasks[i].settled
  /\ qRet' = [kind |-> "ok", value |-> fuse(qArgs, qTasks)]
  /\ qPc' = "done"
  /\ UNCHANGED <<qArgs, qEmbedding, qTasks, qTaskThrew, qOrder, qEncoderCalls, qStoreCalls,
                 qCacheAtCall, qCaught, embeddingCache>>

(***************************************************************************)
(* Specifications                                                          *)
(***************************************************************************)
DivIdleInit ==
  /\ divDocs = <<>>
  /\ divThreshold = <<7, 10>>
  /\ divMax = 0
  /\ divSelected = "none"


QIdleInit ==
  /\ qPc = "idle"
  /\ qArgs = [query |-> <<>>, fileIds |-> <<>>, nResults |-> 0, rerankResults |-> FALSE,
              diversityThreshold |-> <<7, 10>>, enableSmartRetrieval |-> FALSE]
  /\ qEmbedding = NoVec
  /\ qTasks = <<>>
  /\ qTaskThrew = <<>>
  /\ qOrder = <<>>
  /\ qRet = [kind |-> "none", value |-> EmptyResult]
  /\ qCaught = "none"
  /\ qEncoderCalls = 0
  /\ qStoreCalls = 0
  /\ qCacheAtCall = <<>>

OvIdleInit ==
  /\ ovPc = "idle"
  /\ ovArgs = [fileId |-> "f1", nResults |-> 0]
  /\ ovSemantic = <<>>
  /\ ovStructural = <<>>
  /\ ovRet = [kind |-> "none", value |-> <<>>]

ScoreIdleInit ==
  /\ scoreArgs = [query |-> <<>>, document |-> <<>>, chunkIndex |-> 0, totalChunks |-> 1,
                  distance |-> 0]
  /\ scoreValue = <<0, 0>>

\* responses of the DELETE handler
NoResponse == [status |-> 0, error |-> "none"]
Status(n) == [status |-> n, error |-> "none"]
SDKError(code) == [status |-> 0, error |-> code]

GemIdleInit ==
  /\ gemPc = "idle"
  /\ gemTotal = 0
  /\ gemNext = 0
  /\ gemChunks = <<>>
  /\ gemOrder = <<>>
  /\ gemRet = [kind |-> "none", text |-> <<>>]

\* no text, and the metadata of a call that returned nothing
NoText == [source |-> "none", empty |-> TRUE]
NoPdfMetadata == [pageCount |-> 0, isScanned |-> FALSE, ocrEngine |-> "undefined"]

PdfIdleInit ==
  /\ pdfPc = "idle"
  /\ pdfIn = [pageCount |-> 0, trimmedLength |-> 0]
  /\ pdfOcr = <<>>
  /\ pdfRet = [kind |-> "none", text |-> NoText, metadata |-> NoPdfMetadata]

ReqIdleInit ==
  /\ reqArgs = [nResults |-> 0, fileIds |-> <<"f1">>, rerankResults |-> FALSE,
                overview |-> FALSE]
  /\ reqSizes = <<>>

DelIdleInit ==
  /\ delPc = "idle"
  /\ delArgs = [userId |-> FALSE, id |-> "none"]
  /\ delChromaError = "none"
  /\ delRet = NoResponse

NoClass == [chroma |-> "none", route |-> "none"]

ClsIdleInit ==
  /\ clsQuery = <<>>
  /\ clsResult = NoClass

\* ragMetrics of lines 146-151
NoMetrics ==
  [documentsRetrieved |-> 0, filesQueried |-> 0, totalChunks |-> 0,
   retrievalStrategy |-> "none"]

\* queryDocuments not called, and not resolved
NoQueryCall ==
  [query |-> <<>>, fileIds |-> <<>>, nResults |-> 0, rerankResults |-> FALSE,
   enableSmartRetrieval |-> FALSE]

NoQueryResult ==
  [documents |-> <<>>, metadatas |-> <<>>, distances |-> <<>>, totalChunks |-> 0 - 1,
   filesQueried |-> <<>>]

\* no createUIMessageStream yet
NoStream == [started |-> FALSE, ragContext |-> <<>>, query |-> <<>>]

ChatIdleInit ==
  /\ chatPc = "idle"
  /\ chatReq = [fileIdsToQuery |-> <<>>, userQuery |-> <<>>]
  /\ ragContext = <<>>
  /\ ragMetrics = NoMetrics
  /\ chatQueryCall = NoQueryCall
  /\ chatQueryResult = NoQueryResult
  /\ chatOutcome = "none"
  /\ chatSaved = <<>>
  /\ chatStream = NoStream
  /\ chatResponse = "none"

(***************************************************************************)
(* POST of the chat route, lines 201-405: retrieval, then the user message *)
(* is saved and the response stream is started                             *)
(***************************************************************************)
\* String.prototype.trim().length > 0 of line 201
TrimmedNonEmpty(text) == \E i \in 1..Len(text) : text[i] \notin Whitespace

\* buildRAGContext of providers.ts 284-363: "" for no documents, otherwise a header
\* naming the query type, one block per document and a footer
buildRAGContext(documents, query) ==
  IF Len(documents) = 0
  THEN <<>>
  ELSE <<[part |-> "header", body |-> <<detectQueryType(query)>>]>>
       \o [i \in 1..Len(documents) |-> [part |-> "source", body |-> documents[i]]]
       \o <<[part |-> "footer", body |-> <<detectQueryType(query)>>]>>

\* nResults of line 214
ChatNResults(queryType) == IF queryType = "overview" THEN 25 ELSE 10

\* line 201: retrieval is attempted only with files selected and a non-blank query
ChatCheck ==
  /\ chatPc = "check"
  /\ IF Len(chatReq.fileIdsToQuery) > 0 /\ TrimmedNonEmpty(chatReq.userQuery)
     THEN chatPc' = "detect" /\ chatOutcome' = chatOutcome
     ELSE chatPc' = "saveMessages" /\ chatOutcome' = "skipped"
  /\ UNCHANGED <<chatReq, ragContext, ragMetrics, chatQueryCall, chatQueryResult,
                 chatSaved, chatStream,
                 chatResponse>>

\* lines 206-218: the query type is recorded and queryDocuments is called
ChatDetect ==
  /\ chatPc = "detect"
  /\ LET queryType == detectQueryTypeOfRoute(chatReq.userQuery) IN
       /\ ragMetrics' = [ragMetrics EXCEPT !.retrievalStrategy = queryType]
       /\ chatQueryCall' = [query |-> chatReq.userQuery,
                            fileIds |-> chatReq.fileIdsToQuery,
                            nResults |-> ChatNResults(queryType),
                            rerankResults |-> TRUE,
                            enableSmartRetrieval |-> TRUE]
  /\ chatPc' = "query"
  /\ UNCHANGED <<chatReq, ragContext, chatQueryResult, chatOutcome, chatSaved, chatStream,
                 chatResponse>>

\* lines 220-250: queryDocuments resolved with result r; the metrics are updated and
\* the context is built only for a non-empty result
ChatQueryReturn(r) ==
  /\ chatPc = "query"
  /\ chatQueryResult' = r
  /\ ragMetrics' = [documentsRetrieved |-> Len(r.documents),
                    filesQueried |-> Len(r.filesQueried),
                    totalChunks |-> r.totalChunks,
                    retrievalStrategy |-> ragMetrics.retrievalStrategy]
  /\ IF Len(r.documents) > 0
     THEN /\ chatPc' = "build"
          /\ chatOutcome' = "chunks"
     ELSE /\ chatPc' = "saveMessages"
          /\ chatOutcome' = "empty"
  /\ UNCHANGED <<chatReq, ragContext, chatQueryCall, chatSaved, chatStream, chatResponse>>

\* an uncaught rejection of queryDocuments: the handler's outer catch of lines 407-425
\* answers offline:chat
ChatQueryThrowUncaught ==
  /\ chatPc = "query"
  /\ chatPc' = "done"
  /\ chatOutcome' = "queryThrew"
  /\ chatResponse' = "offline:chat"
  /\ UNCHANGED <<chatReq, ragContext, ragMetrics, chatQueryCall, chatQueryResult,
                 chatSaved, chatStream>>

\* the catch of lines 251-254 on a rejection of queryDocuments: logged, the handler
\* goes on with the ragContext it had
ChatQueryThrow ==
  /\ chatPc = "query"
  /\ chatPc' = "saveMessages"
  /\ chatOutcome' = "queryThrew"
  /\ UNCHANGED <<chatReq, ragContext, ragMetrics, chatQueryCall, chatQueryResult,
                 chatSaved, chatStream,
                 chatResponse>>

\* lines 231-237: ragContext = buildRAGContext(...)
ChatBuildContext ==
  /\ chatPc = "build"
  /\ ragContext' = buildRAGContext(chatQueryResult.documents, chatReq.userQuery)
  /\ chatPc' = "saveMessages"
  /\ UNCHANGED <<chatReq, ragMetrics, chatQueryCall, chatQueryResult,
                 chatOutcome, chatSaved, chatStream,
                 chatResponse>>

\* the catch of lines 251-254 on an exception raised while the context is built: the
\* assignment of line 231 did not happen
ChatBuildThrow ==
  /\ chatPc = "build"
  /\ chatPc' = "saveMessages"
  /\ chatOutcome' = "buildThrew"
  /\ UNCHANGED <<chatReq, ragContext, ragMetrics, chatQueryCall, chatQueryResult,
                 chatSaved, chatStream,
                 chatResponse>>

\* lines 256-267: the user message is saved
ChatSaveMessages ==
  /\ chatPc = "saveMessages"
  /\ chatSaved' = Append(chatSaved, [role |-> "user", parts |-> chatReq.userQuery])
  /\ chatPc' = "createStreamId"
  /\ UNCHANGED <<chatReq, ragContext, ragMetrics, chatQueryCall, chatQueryResult,
                 chatOutcome, chatStream,
                 chatResponse>>

\* lines 269-270
ChatCreateStreamId ==
  /\ chatPc = "createStreamId"
  /\ chatPc' = "stream"
  /\ UNCHANGED <<chatReq, ragContext, ragMetrics, chatQueryCall, chatQueryResult,
                 chatOutcome, chatSaved,
                 chatStream, chatResponse>>

\* lines 274-405: createUIMessageStream runs streamText with the system prompt built
\* from ragContext, and the stream is returned as the response
ChatStartStream ==
  /\ chatPc = "stream"
  /\ chatStream' = [started |-> TRUE, ragContext |-> ragContext,
                    query |-> chatReq.userQuery]
  /\ chatResponse' = "stream"
  /\ chatPc' = "done"
  /\ UNCHANGED <<chatReq, ragContext, ragMetrics, chatQueryCall, chatQueryResult,
                 chatOutcome, chatSaved>>

(***************************************************************************)
(* processPDF: the parser's text when there is enough of it, otherwise OCR *)
(* by Mistral and, when that fails, by Gemini                              *)
(***************************************************************************)
\* the factor of line 76
CharsPerPage == 100

\* hasText of line 76: text && text.trim().length > (pageCount * 100); an empty
\* text has trimmed length 0, which is never above pageCount * 100
hasText(pageCount, trimmedLength) == trimmedLength > pageCount * CharsPerPage

\* the rejection of lines 113-116
PdfFailed == [kind |-> "throw", text |-> NoText, metadata |-> NoPdfMetadata]

\* lines 70-101: parser.getText resolved; with enough text it is reformatted and
\* returned, otherwise extractTextWithMistral is called
PdfParseReturn ==
  /\ pdfPc = "parse"
  /\ IF hasText(pdfIn.pageCount, pdfIn.trimmedLength)
     THEN /\ pdfRet' = [kind |-> "ok",
                        text |-> [source |-> "parser", empty |-> FALSE],
                        metadata |-> [pageCount |-> pdfIn.pageCount, isScanned |-> FALSE,
                                      ocrEngine |-> "undefined"]]
          /\ pdfPc' = "done"
          /\ pdfOcr' = pdfOcr
     ELSE /\ pdfPc' = "mistral"
          /\ pdfOcr' = Append(pdfOcr, "mistral")
          /\ pdfRet' = pdfRet
  /\ UNCHANGED pdfIn

\* parser.getText rejected: the catch of lines 113-116
PdfParseThrow ==
  /\ pdfPc = "parse"
  /\ pdfRet' = PdfFailed
  /\ pdfPc' = "done"
  /\ UNCHANGED <<pdfIn, pdfOcr>>

\* lines 100-105: extractTextWithMistral resolved (with a non-empty text, 262-269)
PdfMistralReturn ==
  /\ pdfPc = "mistral"
  /\ pdfRet' = [kind |-> "ok",
                text |-> [source |-> "mistral", empty |-> FALSE],
                metadata |-> [pageCount |-> pdfIn.pageCount, isScanned |-> TRUE,
                              ocrEngine |-> "mistral"]]
  /\ pdfPc' = "done"
  /\ UNCHANGED <<pdfIn, pdfOcr>>

\* a catch of line 105 that gave up instead of calling extractTextWithGemini
PdfMistralThrowNoFallback ==
  /\ pdfPc = "mistral"
  /\ pdfRet' = PdfFailed
  /\ pdfPc' = "done"
  /\ UNCHANGED <<pdfIn, pdfOcr>>

\* lines 105-108: extractTextWithMistral rejected (the service failed, or it gave
\* no text, 262-264 and 272-275): extractTextWithGemini is called
PdfMistralThrow ==
  /\ pdfPc = "mistral"
  /\ pdfOcr' = Append(pdfOcr, "gemini")
  /\ pdfPc' = "gemini"
  /\ UNCHANGED <<pdfIn, pdfRet>>

\* lines 108-112: extractTextWithGemini resolved; its text may be empty (226-229)
PdfGeminiReturn(empty) ==
  /\ pdfPc = "gemini"
  /\ pdfRet' = [kind |-> "ok",
                text |-> [source |-> "gemini", empty |-> empty],
                metadata |-> [pageCount |-> pdfIn.pageCount, isScanned |-> TRUE,
                              ocrEngine |-> "gemini"]]
  /\ pdfPc' = "done"
  /\ UNCHANGED <<pdfIn, pdfOcr>>

\* extractTextWithGemini rejected: the catch of lines 113-116
PdfGeminiThrow ==
  /\ pdfPc = "gemini"
  /\ pdfRet' = PdfFailed
  /\ pdfPc' = "done"
  /\ UNCHANGED <<pdfIn, pdfOcr>>

(***************************************************************************)
(* extractTextWithGemini: a document of more than 15 pages is cut into     *)
(* page ranges, each handed to processChunk without waiting for the one    *)
(* before; the texts are joined when all have resolved.  The text of a     *)
(* range is written as the sequence of its page numbers.                   *)
(***************************************************************************)
\* PAGES_PER_CHUNK of line 123
PAGES_PER_CHUNK == 15

\* the text processChunk resolves with for pages startPage..endPage: the pages'
\* text, or '' when the model gave none (lines 226-229)
PagesText(startPage, endPage) == [k \in 1..(endPage - startPage + 1) |-> startPage + k - 1]

\* the texts joined in the order the calls settled
RECURSIVE joinAsSettled(_, _)
joinAsSettled(chunks, i) ==
  IF i > Len(gemOrder) THEN <<>>
  ELSE chunks[gemOrder[i]].text \o joinAsSettled(chunks, i + 1)

\* results.join of line 176 over the results of Promise.all (173), which are in the
\* order of chunks[]
RECURSIVE joinResults(_, _)
joinResults(chunks, i) ==
  IF i > Len(chunks) THEN <<>> ELSE chunks[i].text \o joinResults(chunks, i + 1)

\* the rejection of lines 183-186
GemFailed == [kind |-> "throw", text |-> <<>>]

\* lines 127-134: the document is loaded; up to 15 pages go to one processChunk call
GemLoad ==
  /\ gemPc = "load"
  /\ IF gemTotal <= PAGES_PER_CHUNK
     THEN /\ gemPc' = "single"
          /\ gemChunks' = <<[startPage |-> 1, endPage |-> gemTotal, state |-> "pending",
                             text |-> <<>>]>>
     ELSE /\ gemPc' = "submitting"
          /\ gemChunks' = <<>>
  /\ gemNext' = 0
  /\ UNCHANGED <<gemTotal, gemOrder, gemRet>>

\* PDFDocument.load rejected: the catch of lines 183-186
GemLoadThrow ==
  /\ gemPc = "load"
  /\ gemRet' = GemFailed
  /\ gemPc' = "done"
  /\ UNCHANGED <<gemTotal, gemNext, gemChunks, gemOrder>>

\* line 133: the single call resolved, with the text or with ''
GemSingleReturn(empty) ==
  /\ gemPc = "single"
  /\ LET text == IF empty THEN <<>> ELSE PagesText(1, gemTotal) IN
       /\ gemChunks' = [gemChunks EXCEPT ![1].state = "resolved", ![1].text = text]
       /\ gemRet' = [kind |-> "ok", text |-> text]
  /\ gemOrder' = Append(gemOrder, 1)
  /\ gemPc' = "done"
  /\ UNCHANGED <<gemTotal, gemNext>>

\* line 133: the single call rejected
GemSingleThrow ==
  /\ gemPc = "single"
  /\ gemChunks' = [gemChunks EXCEPT ![1].state = "rejected"]
  /\ gemOrder' = Append(gemOrder, 1)
  /\ gemRet' = GemFailed
  /\ gemPc' = "done"
  /\ UNCHANGED <<gemTotal, gemNext>>

\* one round of the loop of lines 139-169: the pages startPage..endPage-1 (0-based)
\* are copied, processChunk is called for startPage+1..endPage and its promise
\* pushed; after the last range the loop ends and Promise.all is awaited
GemSubmit ==
  /\ gemPc = "submitting"
  /\ gemNext < gemTotal
  /\ LET startPage == gemNext
         endPage == Min(startPage + PAGES_PER_CHUNK, gemTotal)
     IN gemChunks' = Append(gemChunks, [startPage |-> startPage + 1, endPage |-> endPage,
                                        state |-> "pending", text |-> <<>>])
  /\ gemNext' = gemNext + PAGES_PER_CHUNK
  /\ gemPc' = IF gemNext + PAGES_PER_CHUNK < gemTotal THEN "submitting" ELSE "awaitAll"
  /\ UNCHANGED <<gemTotal, gemOrder, gemRet>>

\* copyPages or save rejected in a round of the loop: the catch of lines 183-186
GemSubmitThrow ==
  /\ gemPc = "submitting"
  /\ gemRet' = GemFailed
  /\ gemPc' = "done"
  /\ UNCHANGED <<gemTotal, gemNext, gemChunks, gemOrder>>

\* a processChunk call resolved, while the loop still runs or while Promise.all is
\* awaited
GemChunkReturn(k, empty) ==
  /\ gemPc \in {"submitting", "awaitAll"}
  /\ gemChunks[k].state = "pending"
  /\ gemChunks' = [gemChunks EXCEPT
                     ![k].state = "resolved",
                     ![k].text = IF empty THEN <<>>
                                 ELSE PagesText(gemChunks[k].startPage, gemChunks[k].endPage)]
  /\ gemOrder' = Append(gemOrder, k)
  /\ UNCHANGED <<gemPc, gemTotal, gemNext, gemRet>>

\* a processChunk call rejected
GemChunkThrow(k) ==
  /\ gemPc \in {"submitting", "awaitAll"}
  /\ gemChunks[k].state = "pending"
  /\ gemChunks' = [gemChunks EXCEPT ![k].state = "rejected"]
  /\ gemOrder' = Append(gemOrder, k)
  /\ UNCHANGED <<gemPc, gemTotal, gemNext, gemRet>>

\* lines 173-180: Promise.all resolved, every call having resolved
GemAllResolved ==
  /\ gemPc = "awaitAll"
  /\ \A k \in 1..Len(gemChunks) : gemChunks[k].state = "resolved"
  /\ gemRet' = [kind |-> "ok", text |-> joinResults(gemChunks, 1)]
  /\ gemPc' = "done"
  /\ UNCHANGED <<gemTotal, gemNext, gemChunks, gemOrder>>

\* line 173: Promise.all rejected, a call having rejected (the others may still
\* be pending): the catch of lines 183-186
GemAllRejected ==
  /\ gemPc = "awaitAll"
  /\ \E k \in 1..Len(gemChunks) : gemChunks[k].state = "rejected"
  /\ gemRet' = GemFailed
  /\ gemPc' = "done"
  /\ UNCHANGED <<gemTotal, gemNext, gemChunks, gemOrder>>

(***************************************************************************)
(* The vector queries one per-file callback of queryDocuments issues       *)
(***************************************************************************)
\* lines 535-551: the overview strategy hands the budget to
\* retrieveOverviewContextForFile, the standard strategy issues one query
ReqIssue ==
  /\ reqSizes = <<>>
  /\ IF reqArgs.overview
     THEN reqSizes' \in overviewRequests(overviewBudget(reqArgs))
     ELSE reqSizes' = <<standardRequest(reqArgs)>>
  /\ UNCHANGED reqArgs

(***************************************************************************)
(* DELETE of the files route                                               *)
(***************************************************************************)
\* the ingestion state other than the chatFile rows and the collections
ingRunVars == <<ingPc, ingArgs, ingRet, ingAttempts, ingFailedAt, ingChunks, ingEmb, statusLog>>

\* lines 173-189: the request arrives; without a user it is refused, without an id
\* (or projectId) it is answered 400
DelCall(userId, id) ==
  /\ delPc \in {"idle", "done"}
  /\ delArgs' = [userId |-> userId, id |-> id]
  /\ delChromaError' = "none"
  /\ IF ~userId
     THEN delPc' = "done" /\ delRet' = SDKError("unauthorized:api")
     ELSE IF id = "none"
          THEN delPc' = "done" /\ delRet' = Status(400)
          ELSE delPc' = "getFile" /\ delRet' = NoResponse
  /\ UNCHANGED <<files, collections, ingRunVars>>

\* lines 192-196: getChatFileById resolved; 404 without a row
DelGetFile ==
  /\ delPc = "getFile"
  /\ IF files[delArgs.id] = NoFile
     THEN delPc' = "done" /\ delRet' = Status(404)
     ELSE delPc' = "uploadthing" /\ delRet' = delRet
  /\ UNCHANGED <<delArgs, delChromaError, files, collections, ingRunVars>>

\* getChatFileById threw its ChatSDKError (part_007 330-332): the catch of lines
\* 217-225 answers with it
DelGetFileThrow ==
  /\ delPc = "getFile"
  /\ delPc' = "done"
  /\ delRet' = SDKError("bad_request:database")
  /\ UNCHANGED <<delArgs, delChromaError, files, collections, ingRunVars>>

\* lines 198-206: utapi.deleteFiles, awaited; its failure is logged and the handler
\* continues, so both outcomes leave the same state
DelUploadThing ==
  /\ delPc = "uploadthing"
  /\ delPc' = "chroma"
  /\ UNCHANGED <<delArgs, delChromaError, delRet, files, collections, ingRunVars>>

\* lines 208-212: deleteFileFromCollection is imported from chroma.ts (line 14), which
\* exports no such name (its function is deleteFileCollection, 1173-1189, called by
\* nobody): the binding is undefined, the call throws a TypeError, and the catch logs
\* it.  The store is not touched.
DelChroma ==
  /\ delPc = "chroma"
  /\ delChromaError' = "TypeError"
  /\ delPc' = "record"
  /\ UNCHANGED <<delArgs, delRet, files, collections, ingRunVars>>

\* lines 214-216: deleteChatFile removed the row; 200
DelRecord ==
  /\ delPc = "record"
  /\ files' = [files EXCEPT ![delArgs.id] = NoFile]
  /\ delRet' = Status(200)
  /\ delPc' = "done"
  /\ UNCHANGED <<delArgs, delChromaError, collections, ingRunVars>>

\* deleteChatFile threw its ChatSDKError (part_007 179-181)
DelRecordThrow ==
  /\ delPc = "record"
  /\ delRet' = SDKError("bad_request:database")
  /\ delPc' = "done"
  /\ UNCHANGED <<delArgs, delChromaError, files, collections, ingRunVars>>

(***************************************************************************)
(* detectQueryType called on one query, by the retriever and by the route  *)
(***************************************************************************)
Classify ==
  /\ clsResult = NoClass
  /\ clsResult' = [chroma |-> detectQueryType(clsQuery),
                   route |-> detectQueryTypeOfRoute(clsQuery)]
  /\ UNCHANGED clsQuery

\* ---- createEmbeddings called again and again by one caller
InitEmbed == EmbIdleInit /\ DivIdleInit /\ IngIdleInit /\ QIdleInit /\ OvIdleInit /\ ScoreIdleInit /\ ChatIdleInit /\ ClsIdleInit /\ DelIdleInit /\ ReqIdleInit /\ PdfIdleInit /\ GemIdleInit

NextEmbed ==
  \/ \E texts \in SeqsUpTo(EmbedTexts, MaxBatch) :
       EmbedCall(texts) /\ UNCHANGED <<divVars, ingVars, qVars, ovVars, scoreVars, chatVars, clsVars, delVars, reqVars, pdfVars, gemVars>>
  \/ EncoderReturn /\ UNCHANGED <<divVars, ingVars, qVars, ovVars, scoreVars, chatVars, clsVars, delVars, reqVars, pdfVars, gemVars>>
  \/ EncoderThrow /\ UNCHANGED <<divVars, ingVars, qVars, ovVars, scoreVars, chatVars, clsVars, delVars, reqVars, pdfVars, gemVars>>

SpecEmbed == InitEmbed /\ [][NextEmbed]_vars

\* ---- uploads and their background ingestion runs, interleaved
embLocalVars == <<embPc, embTexts, embResults, embToEmbed, embIndices, embRet,
                  embUpstream, embCacheAtCall, embPrev>>

InitIngest == EmbIdleInit /\ DivIdleInit /\ IngIdleInit /\ QIdleInit /\ OvIdleInit /\ ScoreIdleInit /\ ChatIdleInit /\ ClsIdleInit /\ DelIdleInit /\ ReqIdleInit /\ PdfIdleInit /\ GemIdleInit

IngestOthers == UNCHANGED <<embLocalVars, divVars, qVars, ovVars, scoreVars, chatVars, clsVars, delVars, reqVars, pdfVars, gemVars>>

NextIngest ==
  \/ \E f \in FileIds : \E t \in UploadTypes : Upload(f, t) /\ IngestOthers
  \/ \E f \in FileIds : IngValidate(f) /\ IngestOthers
  \/ \E f \in FileIds : IngMarkProcessing(f) /\ IngestOthers
  \/ \E f \in FileIds : IngFetch(f) /\ IngestOthers
  \/ \E f \in FileIds : IngExtract(f) /\ IngestOthers
  \/ \E f \in FileIds : IngSplit(f) /\ IngestOthers
  \/ \E f \in FileIds : IngEncoderReturn(f) /\ IngestOthers
  \/ \E f \in FileIds : IngEncoderThrow(f) /\ IngestOthers
  \/ \E f \in FileIds : IngGetOrCreateCollection(f) /\ IngestOthers
  \/ \E f \in FileIds : IngAdd(f) /\ IngestOthers
  \/ \E f \in FileIds : IngUpdateMetadata(f) /\ IngestOthers
  \/ \E f \in FileIds : IngMarkCompleted(f) /\ IngestOthers
  \/ \E f \in FileIds : IngCatch(f) /\ IngestOthers

SpecIngest == InitIngest /\ [][NextIngest]_vars

\* ---- retrieveOverviewContextForFile on the collection of an ingested file
\* the caches a process may hold: any of the structural queries already embedded
StructuralCaches ==
  {[key \in {getCacheKey(structuralQueries[k]) : k \in K} |-> <<"vec", key[2], 0>>] :
     K \in SUBSET (1..Len(structuralQueries))}

\* the state once every file was uploaded as plain text and its ingestion run
\* finished, leaving the collections c: a file without a collection failed at the
\* download, one with an empty collection at collection.add, the others completed
AfterIngestion(c) ==
  LET failedAt(f) == IF c[f] = NoCollection THEN "fetch"
                     ELSE IF c[f] = <<>> THEN "add" ELSE "none"
  IN
  /\ collections = c
  /\ files = [f \in FileIds |->
               [embeddingStatus |-> IF failedAt(f) = "none" THEN "completed" ELSE "failed",
                fileType |-> "text/plain", hasMetadata |-> FALSE]]
  /\ ingPc = [f \in FileIds |-> "done"]
  /\ ingArgs = [f \in FileIds |-> "text/plain"]
  /\ ingRet = [f \in FileIds |-> IF failedAt(f) = "none" THEN "ok" ELSE "throw"]
  /\ ingAttempts = [f \in FileIds |-> 1]
  /\ ingFailedAt = [f \in FileIds |-> failedAt(f)]
  /\ ingChunks = [f \in FileIds |-> <<>>]
  /\ ingEmb = [f \in FileIds |-> NoEmb]
  /\ statusLog = [f \in FileIds |->
                   <<"pending", "processing",
                     IF failedAt(f) = "none" THEN "completed" ELSE "failed">>]

\* the createEmbeddings caller is idle
EmbCallerIdle ==
  /\ embPc = "idle"
  /\ embTexts = <<>>
  /\ embResults = <<>>
  /\ embToEmbed = <<>>
  /\ embIndices = <<>>
  /\ embRet = [kind |-> "none", value |-> <<>>]
  /\ embUpstream = <<>>
  /\ embCacheAtCall = <<>>
  /\ embPrev = [kind |-> "none", texts |-> <<>>, value |-> <<>>]

InitOverview ==
  /\ embeddingCache \in StructuralCaches
  /\ EmbCallerIdle
  /\ \E n \in 1..MaxStored :
       AfterIngestion([f \in FileIds |->
                         IF f = "f1" THEN ChunkRecords(f, DocumentChunks(n), FALSE)
                         ELSE NoCollection])
  /\ DivIdleInit /\ QIdleInit /\ OvIdleInit /\ ScoreIdleInit /\ ChatIdleInit /\ ClsIdleInit /\ DelIdleInit /\ ReqIdleInit /\ PdfIdleInit /\ GemIdleInit

OverviewOthers == UNCHANGED <<embLocalVars, divVars, ingVars, qVars, scoreVars, chatVars, clsVars, delVars, reqVars, pdfVars, gemVars>>

NextOverview ==
  \/ \E n \in 0..MaxOverviewN : OvCall("f1", n) /\ OverviewOthers
  \/ OvSemanticReturn /\ OverviewOthers
  \/ OvSemanticThrow /\ OverviewOthers
  \/ \E k \in 1..Len(structuralQueries) : OvProbeEmbedReturn(k) /\ OverviewOthers
  \/ \E k \in 1..Len(structuralQueries) : OvProbeEmbedThrow(k) /\ OverviewOthers
  \/ \E k \in 1..Len(structuralQueries) : OvProbeQueryReturn(k) /\ OverviewOthers
  \/ \E k \in 1..Len(structuralQueries) : OvProbeQueryThrow(k) /\ OverviewOthers
  \/ OvFuse /\ OverviewOthers
  \/ OvFallbackReturn /\ OverviewOthers
  \/ OvFallbackThrow /\ OverviewOthers

SpecOverview == InitOverview /\ [][NextOverview]_vars

\* ---- queryDocuments on the collections ingestion left behind
\* the fileIds lists a chat may hold
FileIdLists == {<<>>, <<"f1">>, <<"f1", "f2">>}

\* the nResults values tried (the chat route asks for 10 or 25)
QueryBudgets == {0, 1, 2, MaxOverviewN}

QueryArgs ==
  [query : Queries, fileIds : FileIdLists, nResults : QueryBudgets,
   rerankResults : BOOLEAN, diversityThreshold : {<<7, 10>>},
   enableSmartRetrieval : {TRUE}]

\* the caches a process may hold when the call arrives: empty, or the queries
\* asked before
QueryCaches ==
  {<<>>, [key \in {getCacheKey(q) : q \in Queries} |-> <<"vec", key[2], 0>>]}

InitQuery ==
  /\ embeddingCache \in QueryCaches
  /\ EmbCallerIdle
  /\ \E c \in [FileIds -> UNION {StoredCollections(f) : f \in FileIds}] :
       /\ \A f \in FileIds : c[f] \in StoredCollections(f)
       /\ AfterIngestion(c)
  /\ DivIdleInit /\ QIdleInit /\ OvIdleInit /\ ScoreIdleInit /\ ChatIdleInit /\ ClsIdleInit /\ DelIdleInit /\ ReqIdleInit /\ PdfIdleInit /\ GemIdleInit

QueryOthers == UNCHANGED <<embLocalVars, divVars, ingVars, ovVars, scoreVars, chatVars, clsVars, delVars, reqVars, pdfVars, gemVars>>

NextQuery ==
  \/ \E args \in QueryArgs : QCall(args) /\ QueryOthers
  \/ QEncoderReturn /\ QueryOthers
  \/ QEncoderThrow /\ QueryOthers
  \/ \E i \in 1..Len(qTasks) : QFileThrow(i) /\ QueryOthers
  \/ \E i \in 1..Len(qTasks) : QFileStandard(i) /\ QueryOthers
  \/ \E i \in 1..Len(qTasks) : QFileOverview(i) /\ QueryOthers
  \/ QFuse /\ QueryOthers

SpecQuery == InitQuery /\ [][NextQuery]_vars

\* ---- the scoring of rerankByRelevance on every chunk with inputs in range
\* distances in [0, 1], in hundredths
ScoreDistances == {0, 10, 40, 50, 100}

\* queries: the two of queryDocuments, the empty one and one with a leading blank
ScoreQueries == Queries \cup {<<>>, <<" ", "a">>}

InitScore ==
  /\ scoreArgs \in [query : ScoreQueries, document : DocPool,
                     chunkIndex : 0..MaxChunks, totalChunks : 1..(MaxChunks + 1),
                     distance : ScoreDistances]
  /\ scoreArgs.chunkIndex < scoreArgs.totalChunks
  /\ scoreValue = <<0, 0>>
  /\ EmbIdleInit /\ DivIdleInit /\ IngIdleInit /\ QIdleInit /\ OvIdleInit /\ ChatIdleInit /\ ClsIdleInit /\ DelIdleInit /\ ReqIdleInit /\ PdfIdleInit /\ GemIdleInit

NextScore == ScoreCall /\ UNCHANGED <<embVars, divVars, ingVars, qVars, ovVars, chatVars, clsVars, delVars, reqVars, pdfVars, gemVars>>

SpecScore == InitScore /\ [][NextScore]_vars

\* ---- extractTextWithGemini on documents of up to three page ranges
MaxGemPages == 31

InitGemini ==
  /\ gemPc = "load"
  /\ gemTotal \in 1..MaxGemPages
  /\ gemNext = 0
  /\ gemChunks = <<>>
  /\ gemOrder = <<>>
  /\ gemRet = [kind |-> "none", text |-> <<>>]
  /\ EmbIdleInit /\ DivIdleInit /\ IngIdleInit /\ QIdleInit /\ OvIdleInit /\ ScoreIdleInit
  /\ ChatIdleInit /\ ClsIdleInit /\ DelIdleInit /\ ReqIdleInit /\ PdfIdleInit

GeminiOthers == UNCHANGED <<embVars, divVars, ingVars, qVars, ovVars, scoreVars, chatVars, clsVars, delVars, reqVars, pdfVars>>

NextGemini ==
  \/ GemLoad /\ GeminiOthers
  \/ GemLoadThrow /\ GeminiOthers
  \/ \E empty \in BOOLEAN : GemSingleReturn(empty) /\ GeminiOthers
  \/ GemSingleThrow /\ GeminiOthers
  \/ GemSubmit /\ GeminiOthers
  \/ GemSubmitThrow /\ GeminiOthers
  \/ \E k \in 1..Len(gemChunks) : \E empty \in BOOLEAN : GemChunkReturn(k, empty) /\ GeminiOthers
  \/ \E k \in 1..Len(gemChunks) : GemChunkThrow(k) /\ GeminiOthers
  \/ GemAllResolved /\ GeminiOthers
  \/ GemAllRejected /\ GeminiOthers

SpecGemini == InitGemini /\ [][NextGemini]_vars

\* ---- processPDF on documents whose text is around the limit of 100 characters a page
MaxPdfPages == 3

TrimmedLengths ==
  {n \in 0..(MaxPdfPages * CharsPerPage + 1) :
     \E pages \in 0..MaxPdfPages : \E d \in {0 - 1, 0, 1} : n = pages * CharsPerPage + d}

InitPdf ==
  /\ pdfPc = "parse"
  /\ pdfIn \in [pageCount : 0..MaxPdfPages, trimmedLength : TrimmedLengths]
  /\ pdfOcr = <<>>
  /\ pdfRet = [kind |-> "none", text |-> NoText, metadata |-> NoPdfMetadata]
  /\ EmbIdleInit /\ DivIdleInit /\ IngIdleInit /\ QIdleInit /\ OvIdleInit /\ ScoreIdleInit /\ GemIdleInit
  /\ ChatIdleInit /\ ClsIdleInit /\ DelIdleInit /\ ReqIdleInit

PdfOthers == UNCHANGED <<embVars, divVars, ingVars, qVars, ovVars, scoreVars, chatVars, clsVars, delVars, reqVars, gemVars>>

NextPdf ==
  \/ PdfParseReturn /\ PdfOthers
  \/ PdfParseThrow /\ PdfOthers
  \/ PdfMistralReturn /\ PdfOthers
  \/ PdfMistralThrow /\ PdfOthers
  \/ \E empty \in BOOLEAN : PdfGeminiReturn(empty) /\ PdfOthers
  \/ PdfGeminiThrow /\ PdfOthers

SpecPdf == InitPdf /\ [][NextPdf]_vars

\* ---- the vector queries of a per-file callback, for every budget the chat route uses
ReqNResults == 0..25
ReqFileIdLists == {<<"f1">>, <<"f1", "f2">>, <<"f1", "f2", "f3">>}

InitRequest ==
  /\ reqArgs \in [nResults : ReqNResults, fileIds : ReqFileIdLists,
                   rerankResults : BOOLEAN, overview : BOOLEAN]
  /\ reqSizes = <<>>
  /\ EmbIdleInit /\ DivIdleInit /\ IngIdleInit /\ QIdleInit /\ OvIdleInit /\ ScoreIdleInit /\ PdfIdleInit /\ GemIdleInit
  /\ ChatIdleInit /\ ClsIdleInit /\ DelIdleInit

NextRequest ==
  ReqIssue /\ UNCHANGED <<embVars, divVars, ingVars, qVars, ovVars, scoreVars, chatVars, clsVars, delVars, pdfVars, gemVars>>

SpecRequest == InitRequest /\ [][NextRequest]_vars

\* ---- DELETE requests on the files left by the ingestion
InitDelete ==
  /\ \E c \in [FileIds -> UNION {StoredCollections(f) : f \in FileIds}] :
       /\ \A f \in FileIds : c[f] \in StoredCollections(f)
       /\ AfterIngestion(c)
  /\ DelIdleInit
  /\ EmbIdleInit /\ DivIdleInit /\ QIdleInit /\ OvIdleInit /\ ScoreIdleInit /\ ChatIdleInit /\ ClsIdleInit /\ ReqIdleInit /\ PdfIdleInit /\ GemIdleInit

DeleteOthers == UNCHANGED <<embVars, divVars, qVars, ovVars, scoreVars, chatVars, clsVars, reqVars, pdfVars, gemVars>>

NextDelete ==
  \/ \E userId \in BOOLEAN, id \in FileIds \cup {"none"} : DelCall(userId, id) /\ DeleteOthers
  \/ DelGetFile /\ DeleteOthers
  \/ DelGetFileThrow /\ DeleteOthers
  \/ DelUploadThing /\ DeleteOthers
  \/ DelChroma /\ DeleteOthers
  \/ DelRecord /\ DeleteOthers
  \/ DelRecordThrow /\ DeleteOthers

SpecDelete == InitDelete /\ [][NextDelete]_vars

\* ---- a file's upload and background ingestion run, interleaved with DELETE
\* requests; createChatFile gives every upload a fresh id, so an id is uploaded once
RaceOthers == UNCHANGED <<embLocalVars, divVars, qVars, ovVars, scoreVars, chatVars, clsVars, reqVars, pdfVars, gemVars>>

InitRace == InitIngest

NextRace ==
  \/ \E f \in RaceFileIds : \E t \in UploadTypes :
       ingPc[f] = "none" /\ Upload(f, t) /\ UNCHANGED delVars /\ RaceOthers
  \/ \E f \in RaceFileIds : IngValidate(f) /\ UNCHANGED delVars /\ RaceOthers
  \/ \E f \in RaceFileIds : IngMarkProcessing(f) /\ UNCHANGED delVars /\ RaceOthers
  \/ \E f \in RaceFileIds : IngFetch(f) /\ UNCHANGED delVars /\ RaceOthers
  \/ \E f \in RaceFileIds : IngExtract(f) /\ UNCHANGED delVars /\ RaceOthers
  \/ \E f \in RaceFileIds : IngSplit(f) /\ UNCHANGED delVars /\ RaceOthers
  \/ \E f \in RaceFileIds : IngEncoderReturn(f) /\ UNCHANGED delVars /\ RaceOthers
  \/ \E f \in RaceFileIds : IngEncoderThrow(f) /\ UNCHANGED delVars /\ RaceOthers
  \/ \E f \in RaceFileIds : IngGetOrCreateCollection(f) /\ UNCHANGED delVars /\ RaceOthers
  \/ \E f \in RaceFileIds : IngAdd(f) /\ UNCHANGED delVars /\ RaceOthers
  \/ \E f \in RaceFileIds : IngUpdateMetadata(f) /\ UNCHANGED delVars /\ RaceOthers
  \/ \E f \in RaceFileIds : IngMarkCompleted(f) /\ UNCHANGED delVars /\ RaceOthers
  \/ \E f \in RaceFileIds : IngCatch(f) /\ UNCHANGED delVars /\ RaceOthers
  \/ \E id \in RaceFileIds : DelCall(TRUE, id) /\ UNCHANGED embeddingCache /\ RaceOthers
  \/ DelGetFile /\ UNCHANGED embeddingCache /\ RaceOthers
  \/ DelGetFileThrow /\ UNCHANGED embeddingCache /\ RaceOthers
  \/ DelUploadThing /\ UNCHANGED embeddingCache /\ RaceOthers
  \/ DelChroma /\ UNCHANGED embeddingCache /\ RaceOthers
  \/ DelRecord /\ UNCHANGED embeddingCache /\ RaceOthers
  \/ DelRecordThrow /\ UNCHANGED embeddingCache /\ RaceOthers

SpecRace == InitRace /\ [][NextRace]_vars

\* ---- ingestion runs, one queryDocuments call and DELETE requests interleaved on
\* the embedding cache of one process, with an encoder that answers every text
\* with one vector (version 0)
DeterministicEncoder ==
  \A k \in DOMAIN embeddingCache' :
     (k \notin DOMAIN embeddingCache \/ embeddingCache'[k] # embeddingCache[k])
       => embeddingCache'[k][3] = 0

CacheQueryArgs ==
  [query : Queries, fileIds : {<<"f1">>}, nResults : {1},
   rerankResults : {FALSE}, diversityThreshold : {<<7, 10>>},
   enableSmartRetrieval : {TRUE}]

CacheOthers == UNCHANGED <<embLocalVars, divVars, ovVars, scoreVars, chatVars, clsVars, reqVars, pdfVars, gemVars>>

InitCache == InitIngest

NextCache ==
  \/ \E f \in FileIds :
       ingPc[f] = "none" /\ Upload(f, "text/plain") /\ UNCHANGED <<qVars, delVars>> /\ CacheOthers
  \/ \E f \in FileIds : IngValidate(f) /\ UNCHANGED <<qVars, delVars>> /\ CacheOthers
  \/ \E f \in FileIds : IngMarkProcessing(f) /\ UNCHANGED <<qVars, delVars>> /\ CacheOthers
  \/ \E f \in FileIds : IngFetch(f) /\ UNCHANGED <<qVars, delVars>> /\ CacheOthers
  \/ \E f \in FileIds : IngExtract(f) /\ UNCHANGED <<qVars, delVars>> /\ CacheOthers
  \/ \E f \in FileIds : IngSplit(f) /\ UNCHANGED <<qVars, delVars>> /\ CacheOthers
  \/ \E f \in FileIds :
       IngEncoderReturn(f) /\ DeterministicEncoder /\ UNCHANGED <<qVars, delVars>> /\ CacheOthers
  \/ \E f \in FileIds : IngEncoderThrow(f) /\ UNCHANGED <<qVars, delVars>> /\ CacheOthers
  \/ \E f \in FileIds : IngGetOrCreateCollection(f) /\ UNCHANGED <<qVars, delVars>> /\ CacheOthers
  \/ \E f \in FileIds : IngAdd(f) /\ UNCHANGED <<qVars, delVars>> /\ CacheOthers
  \/ \E f \in FileIds : IngMarkCompleted(f) /\ UNCHANGED <<qVars, delVars>> /\ CacheOthers
  \/ \E f \in FileIds : IngCatch(f) /\ UNCHANGED <<qVars, delVars>> /\ CacheOthers
  \/ \E args \in CacheQueryArgs : QCall(args) /\ UNCHANGED <<ingVars, delVars>> /\ CacheOthers
  \/ QEncoderReturn /\ DeterministicEncoder /\ UNCHANGED <<ingVars, delVars>> /\ CacheOthers
  \/ QEncoderThrow /\ UNCHANGED <<ingVars, delVars>> /\ CacheOthers
  \/ \E i \in 1..Len(qTasks) :
       QFileThrow(i) /\ DeterministicEncoder /\ UNCHANGED <<ingVars, delVars>> /\ CacheOthers
  \/ \E i \in 1..Len(qTasks) : QFileStandard(i) /\ UNCHANGED <<ingVars, delVars>> /\ CacheOthers
  \/ \E i \in 1..Len(qTasks) :
       QFileOverview(i) /\ DeterministicEncoder /\ UNCHANGED <<ingVars, delVars>> /\ CacheOthers
  \/ QFuse /\ UNCHANGED <<ingVars, delVars>> /\ CacheOthers
  \/ \E id \in RaceFileIds : DelCall(TRUE, id) /\ UNCHANGED <<embeddingCache, qVars>> /\ CacheOthers
  \/ DelGetFile /\ UNCHANGED <<embeddingCache, qVars>> /\ CacheOthers
  \/ DelGetFileThrow /\ UNCHANGED <<embeddingCache, qVars>> /\ CacheOthers
  \/ DelUploadThing /\ UNCHANGED <<embeddingCache, qVars>> /\ CacheOthers
  \/ DelChroma /\ UNCHANGED <<embeddingCache, qVars>> /\ CacheOthers
  \/ DelRecord /\ UNCHANGED <<embeddingCache, qVars>> /\ CacheOthers
  \/ DelRecordThrow /\ UNCHANGED <<embeddingCache, qVars>> /\ CacheOthers

SpecCache == InitCache /\ [][NextCache]_vars

\* ---- detectQueryType on sample queries
\* String.prototype.toUpperCase on the letters of the cues
UpperChar(c) ==
  IF \E u \in {"A", "B", "C", "D", "E", "F", "G", "H", "I", "J", "K", "L", "M", "N", "O", "P", "Q", "R", "S", "T", "U", "V", "W", "X", "Y", "Z"} : LowerChar(u) = c /\ u # c
  THEN CHOOSE u \in {"A", "B", "C", "D", "E", "F", "G", "H", "I", "J", "K", "L", "M", "N", "O", "P", "Q", "R", "S", "T", "U", "V", "W", "X", "Y", "Z"} : LowerChar(u) = c /\ u # c
  ELSE c

toUpperCase(s) == [i \in 1..Len(s) |-> UpperChar(s[i])]

\* "Can you summarize chapter 3?"
QuerySummarize == <<"C", "a", "n", " ", "y", "o", "u", " ", "s", "u", "m", "m", "a", "r", "i", "z", "e", " ", "c", "h", "a", "p", "t", "e", "r", " ", "3", "?">>
\* "What is entropy?"
QueryEntropy == <<"W", "h", "a", "t", " ", "i", "s", " ", "e", "n", "t", "r", "o", "p", "y", "?">>
\* "What page mentions GDP growth in 2020?"
QueryGDP == <<"W", "h", "a", "t", " ", "p", "a", "g", "e", " ", "m", "e", "n", "t", "i", "o", "n", "s", " ", "G", "D", "P", " ", "g", "r", "o", "w", "t", "h", " ", "i", "n", " ", "2", "0", "2", "0", "?">>

\* every cue of both lists and two words that are no cue
ClassifyWords ==
  {overviewKeywords[k] : k \in 1..Len(overviewKeywords)} \cup
  {explanationKeywords[k] : k \in 1..Len(explanationKeywords)} \cup
  {<<"p", "a", "g", "e">>, <<"w", "h", "a", "t">>}

ClassifyPrefixes == {<<>>, <<"P", "l", "e", "a", "s", "e", " ">>}
ClassifySuffixes == {<<>>, <<" ", "e", "x", "p", "l", "a", "i", "n">>, <<" ", "c", "h", "a", "p", "t", "e", "r", "?">>}

\* the three example queries, the empty query, and every word between every prefix
\* and suffix, as written and in capitals
ClassifyQueries ==
  {QuerySummarize, QueryEntropy, QueryGDP, <<>>} \cup
  {pre \o w \o post : pre \in ClassifyPrefixes, w \in ClassifyWords,
                      post \in ClassifySuffixes} \cup
  {pre \o toUpperCase(w) \o post : pre \in ClassifyPrefixes, w \in ClassifyWords,
                                   post \in ClassifySuffixes}

InitClassify ==
  /\ clsQuery \in ClassifyQueries
  /\ clsResult = NoClass
  /\ EmbIdleInit /\ DivIdleInit /\ IngIdleInit /\ QIdleInit /\ OvIdleInit /\ ScoreIdleInit /\ ChatIdleInit /\ DelIdleInit /\ ReqIdleInit /\ PdfIdleInit /\ GemIdleInit

NextClassify == Classify /\ UNCHANGED <<embVars, divVars, ingVars, qVars, ovVars, scoreVars, chatVars, delVars, reqVars, pdfVars, gemVars>>

SpecClassify == InitClassify /\ [][NextClassify]_vars

\* ---- one chat request, from the retrieval to the response
\* userQuery: the two queries of queryDocuments, the empty one and a blank one
ChatQueries == Queries \cup {<<>>, <<" ">>}

\* results queryDocuments can resolve with: up to two documents of up to two files
ChatResults ==
  {EmptyResult} \cup
  { [documents |-> docs,
     metadatas |-> [i \in 1..Len(docs) |-> [chunkIndex |-> i - 1, totalChunks |-> MaxChunks]],
     distances |-> [i \in 1..Len(docs) |-> d],
     totalChunks |-> t,
     filesQueried |-> fq] :
       docs \in {<<DocAB>>, <<DocBC, DocAB>>}, d \in DistSet, t \in 2..MaxStored,
       fq \in {<<"f1">>, <<"f1", "f2">>} }

InitChat ==
  /\ chatPc = "check"
  /\ chatReq \in [fileIdsToQuery : FileIdLists, userQuery : ChatQueries]
  /\ ragContext = <<>>
  /\ ragMetrics = NoMetrics
  /\ chatQueryCall = NoQueryCall
  /\ chatQueryResult = NoQueryResult
  /\ chatOutcome = "none"
  /\ chatSaved = <<>>
  /\ chatStream = NoStream
  /\ chatResponse = "none"
  /\ EmbIdleInit /\ DivIdleInit /\ IngIdleInit /\ QIdleInit /\ OvIdleInit /\ ScoreIdleInit /\ ClsIdleInit /\ DelIdleInit /\ ReqIdleInit /\ PdfIdleInit /\ GemIdleInit

ChatOthers == UNCHANGED <<embVars, divVars, ingVars, qVars, ovVars, scoreVars, clsVars, delVars, reqVars, pdfVars, gemVars>>

NextChat ==
  \/ ChatCheck /\ ChatOthers
  \/ ChatDetect /\ ChatOthers
  \/ \E r \in ChatResults : ChatQueryReturn(r) /\ ChatOthers
  \/ ChatQueryThrow /\ ChatOthers
  \/ ChatBuildContext /\ ChatOthers
  \/ ChatBuildThrow /\ ChatOthers
  \/ ChatSaveMessages /\ ChatOthers
  \/ ChatCreateStreamId /\ ChatOthers
  \/ ChatStartStream /\ ChatOthers

SpecChat == InitChat /\ [][NextChat]_vars

\* the handler is one async function: every await it reaches is resumed
SpecChatLive == SpecChat /\ WF_vars(NextChat)

\* ---- applyDiversityFilter applied to every list of sample documents
InitDiversity ==
  /\ divDocs \in SeqsUpTo(DocPool, MaxDocs)
  /\ divThreshold \in Thresholds
  /\ divMax \in 0..(MaxDocs + 1)
  /\ divSelected = "none"
  /\ EmbIdleInit /\ IngIdleInit /\ QIdleInit /\ OvIdleInit /\ ScoreIdleInit /\ ChatIdleInit /\ ClsIdleInit /\ DelIdleInit /\ ReqIdleInit /\ PdfIdleInit /\ GemIdleInit

NextDiversity == DivCall /\ UNCHANGED <<embVars, ingVars, qVars, ovVars, scoreVars, chatVars, clsVars, delVars, reqVars, pdfVars, gemVars>>

SpecDiversity == InitDiversity /\ [][NextDiversity]_vars

(***************************************************************************)
(* Properties of createEmbeddings                                          *)
(***************************************************************************)
\* the last two calls both returned and were given the same texts
SameTextsTwice ==
  /\ embPc = "idle"
  /\ embPrev.kind = "ok"
  /\ embRet.kind = "ok"
  /\ embTexts = embPrev.texts

\* C7: when createEmbeddings is called twice in sequence with the same text, the
\* second call returns the vector the first returned and hands nothing to the
\* upstream encoder (also when the encoder would answer differently a second time).
C7_CacheIdempotence ==
  (SameTextsTwice /\ Len(embTexts) = 1) =>
     /\ embRet.value = embPrev.value
     /\ embUpstream = <<>>

C7_Witness ==
  /\ SameTextsTwice
  /\ Len(embTexts) = 1
  /\ embRet.value[1] \in EncoderVectors(embTexts[1])
  /\ embRet.value[1][3] = 1

\* the texts of the last call that were not in the cache when it started, in order
MissedAtCall == SelectSeq(embTexts, LAMBDA t : getCacheKey(t) \notin DOMAIN embCacheAtCall)

\* C8: a successful createEmbeddings returns one vector per input text in input
\* order (the cached vector on a hit, an encoder vector of that text on a miss),
\* makes at most one upstream call, holding exactly the texts that missed, and
\* leaves every input text's key in the cache.
C8_OnePerTextInOrder ==
  /\ Len(embUpstream) <= 1
  /\ (embRet.kind \in {"ok", "running", "throw"}) =>
        embUpstream = (IF MissedAtCall = <<>> THEN <<>> ELSE <<MissedAtCall>>)
  /\ (embRet.kind = "ok") =>
        /\ Len(embRet.value) = Len(embTexts)
        /\ \A i \in 1..Len(embTexts) :
              LET key == getCacheKey(embTexts[i]) IN
              /\ embRet.value[i] \in EncoderVectors(embTexts[i])
              /\ key \in DOMAIN embCacheAtCall => embRet.value[i] = embCacheAtCall[key]
              /\ key \in DOMAIN embeddingCache
              /\ embeddingCache[key] \in EncoderVectors(embTexts[i])

\* a batch mixing a hit and a miss, the hit first
C8_Witness ==
  /\ embRet.kind = "ok"
  /\ Len(embTexts) = 2
  /\ getCacheKey(embTexts[1]) \in DOMAIN embCacheAtCall
  /\ getCacheKey(embTexts[2]) \notin DOMAIN embCacheAtCall
  /\ embUpstream = <<(<<embTexts[2]>>)>>

\* C9: when the upstream encoder call fails, createEmbeddings fails as a whole (no
\* vector list is returned) and the cache is exactly as it was before the call.
C9_EncoderFailureLeavesCache ==
  (embRet.kind = "throw") =>
     /\ embRet.value = <<>>
     /\ embeddingCache = embCacheAtCall

\* a failing batch one of whose texts was already cached
C9_Witness ==
  /\ embRet.kind = "throw"
  /\ Len(embTexts) = 2
  /\ \E i \in 1..2 : getCacheKey(embTexts[i]) \in DOMAIN embCacheAtCall

(***************************************************************************)
(* Properties of applyDiversityFilter                                      *)
(***************************************************************************)
\* a / b < c / d on exact fractions
FracLess(sim, threshold) == sim[1] * threshold[2] < threshold[1] * sim[2]

StatusEdges(f) == {<<statusLog[f][k], statusLog[f][k + 1]>> : k \in 1..(Len(statusLog[f]) - 1)}

LifecycleEdges == {<<"pending", "processing">>, <<"processing", "completed">>,
                   <<"processing", "failed">>}

RecordsContiguous(f) ==
  /\ collections[f] # NoCollection
  /\ Len(collections[f]) >= 1
  /\ \A k \in 1..Len(collections[f]) :
        /\ collections[f][k].id = ChunkId(f, k - 1)
        /\ collections[f][k].metadata.fileId = f
        /\ collections[f][k].metadata.chunkIndex = k - 1
        /\ collections[f][k].metadata.totalChunks = Len(collections[f])

\* collection.add of file f's run has resolved and the run has not yet returned
AddResolved(f) == ingPc[f] \in {"updateMetadata", "markCompleted"}

\* C12: once collection.add resolved for the n chunks of a file, the store holds
\* for that file exactly the records {fileId}_chunk_0 .. {fileId}_chunk_{n-1}, the
\* i-th with chunkIndex i, totalChunks n and the i-th chunk as document; status
\* completed is written only after that, and the records are still there then.
C12_ChunkIndicesContiguous ==
  \A f \in FileIds :
     /\ AddResolved(f) =>
           /\ RecordsContiguous(f)
           /\ Len(collections[f]) = Len(ingChunks[f])
           /\ \A k \in 1..Len(ingChunks[f]) : collections[f][k].document = ingChunks[f][k]
           /\ "completed" \notin Range(statusLog[f])
     /\ files[f].embeddingStatus = "completed" =>
           /\ RecordsContiguous(f)
           /\ ingRet[f] = "ok"

\* a file cut into two chunks is completed
C12_Witness ==
  \E f \in FileIds :
     /\ files[f].embeddingStatus = "completed"
     /\ Len(collections[f]) = 2
     /\ collections[f][2].id = ChunkId(f, 1)
     /\ collections[f][2].metadata.totalChunks = 2

(***************************************************************************)
(* Properties of retrieveOverviewContextForFile                            *)
(***************************************************************************)
\* the ids of the chunks of a per-file result (`${fileId}_chunk_${chunkIndex}`)
ResultIds(value) ==
  [i \in 1..Len(value) |-> ChunkId(value[i].metadata.fileId, value[i].metadata.chunkIndex)]

\* the ids some probe answered with
FetchedIds(results) == {results[i].id : i \in 1..Len(results)}

\* C10: whatever the semantic and the structural probes answered, no chunk id
\* appears twice in the per-file result of retrieveOverviewContextForFile.
C10_NoChunkTwice ==
  (ovRet.kind \in {"fused", "fallback"}) =>
     \A i \in 1..Len(ovRet.value) : \A j \in 1..Len(ovRet.value) :
        (i # j) => ResultIds(ovRet.value)[i] # ResultIds(ovRet.value)[j]

\* all three probes fetched the same chunk and the fused result holds it
C10_Witness ==
  /\ ovRet.kind = "fused"
  /\ \E id \in FetchedIds(ovSemantic) :
       /\ \A k \in 1..Len(ovStructural) : id \in FetchedIds(ovStructural[k].results)
       /\ id \in Range(ResultIds(ovRet.value))

\* the chunks the probes' answers were fused from (allDocuments etc. of line 729)
OvCandidates ==
  addStructural(addResults(NoneAdded, ovSemantic, 0),
                [k \in 1..Len(ovStructural) |-> ovStructural[k].results]).all

\* a goes before b by the rule as claimed: by chunkIndex when the adjusted
\* distances differ by less than 0.2, by adjusted distance otherwise
BeforeAsClaimed(a, b) ==
  IF Abs(a.distance - b.distance) < 20
  THEN a.metadata.chunkIndex < b.metadata.chunkIndex
  ELSE a.distance < b.distance

\* a goes before b by the rule of lines 736-742: by adjusted distance when the
\* distances differ by more than 0.2, by chunkIndex otherwise
BeforeByRule(a, b) ==
  IF Abs(a.distance - b.distance) > 20
  THEN a.distance < b.distance
  ELSE a.metadata.chunkIndex < b.metadata.chunkIndex

\* the rule orders the chunks of `all` without a cycle
RuleIsTransitive(all) ==
  \A a \in Range(all) : \A b \in Range(all) : \A c \in Range(all) :
     (BeforeByRule(a, b) /\ BeforeByRule(b, c)) => BeforeByRule(a, c)

\* C11 as claimed: in the fused per-file result, of every two chunks the one with
\* the lower chunkIndex comes first when their adjusted distances differ by less
\* than 0.2, and the one with the lower adjusted distance otherwise, for lists of
\* any length.
C11_EveryPairAsClaimed ==
  (ovRet.kind = "fused") =>
     \A i \in 1..Len(ovRet.value) : \A j \in 1..Len(ovRet.value) :
        (i < j) => BeforeAsClaimed(ovRet.value[i], ovRet.value[j])

\* C11 as amended: when the rule orders the fused chunks without a cycle, of every
\* two chunks of the result the one with the lower adjusted distance comes first
\* when the distances differ by more than 0.2, and the one with the lower
\* chunkIndex otherwise (a difference of exactly 0.2 included).
C11_EveryPairByRule ==
  (ovRet.kind = "fused" /\ RuleIsTransitive(OvCandidates)) =>
     \A i \in 1..Len(ovRet.value) : \A j \in 1..Len(ovRet.value) :
        (i < j) => BeforeByRule(ovRet.value[i], ovRet.value[j])

\* a result of four chunks ordered without a cycle in which a chunk at 0.40 stands
\* before one at 0.20 (exactly 0.2 apart, the lower chunkIndex first) and a chunk
\* at 0.10 before one at 0.40 whatever their indices
C11_Witness ==
  /\ ovRet.kind = "fused"
  /\ RuleIsTransitive(OvCandidates)
  /\ Len(ovRet.value) = 4
  /\ \E i \in 1..4 : \E j \in 1..4 :
       /\ i < j
       /\ ovRet.value[i].distance = 40
       /\ ovRet.value[j].distance = 20
  /\ \E i \in 1..4 : \E j \in 1..4 :
       /\ i < j
       /\ ovRet.value[i].distance = 10
       /\ ovRet.value[j].distance = 40
       /\ ovRet.value[i].metadata.chunkIndex > ovRet.value[j].metadata.chunkIndex

(***************************************************************************)
(* Properties of queryDocuments                                            *)
(***************************************************************************)
\* the chunks of a returned object, as (document, metadata, distance) triples
ReturnedChunks(value) ==
  [i \in 1..Len(value.documents) |->
     [document |-> value.documents[i], metadata |-> value.metadatas[i],
      distance |-> value.distances[i]]]

\* the call was made for fileIds = [f1, f2], the query of f1 threw, that of f2
\* did not, and the call is over
FirstFileThrew ==
  /\ qPc = "done"
  /\ qArgs.fileIds = <<"f1", "f2">>
  /\ qTaskThrew = <<TRUE, FALSE>>

\* C1: for fileIds = [A, B] where the per-file query of A throws (its collection
\* does not exist, or the store rejects) and that of B succeeds, queryDocuments
\* returns normally; every returned chunk is one B's query answered with, all of
\* them are returned when they fit in nResults and at least one otherwise;
\* totalChunks counts B's chunks and filesQueried lists B and nothing else
\* (nothing at all when B's query answered with no chunk).
C1_PerFileFailureIsolated ==
  FirstFileThrew =>
     LET fromB == qTasks[2].result
         got == ReturnedChunks(qRet.value)
     IN /\ qRet.kind = "ok"
        /\ qCaught = "none"
        /\ qTasks[1].result = <<>>
        /\ \A i \in 1..Len(got) : got[i] \in Range(fromB)
        /\ \A i \in 1..Len(got) : got[i].metadata.fileId = "f2"
        /\ Len(fromB) <= qArgs.nResults => Range(got) = Range(fromB)
        /\ Len(fromB) > 0 => Len(got) > 0
        /\ qRet.value.totalChunks = Len(fromB)
        /\ qRet.value.filesQueried = (IF Len(fromB) > 0 THEN <<"f2">> ELSE <<>>)

\* f1 has no collection yet, f2 answered with two chunks and both are returned
C1_Witness ==
  /\ FirstFileThrew
  /\ collections["f1"] = NoCollection
  /\ Len(qTasks[2].result) = 2
  /\ Len(qRet.value.documents) = 2
  /\ qRet.value.filesQueried = <<"f2">>

\* the encoder rejected the query of a call that is over
QueryEncodingFailed == qPc = "done" /\ qCaught = "encoding"

C6_EmptyFileIdsShortCircuit ==
  (qPc # "idle" /\ qArgs.fileIds = <<>>) =>
     /\ qPc = "done"
     /\ qRet = [kind |-> "ok", value |-> EmptyResult]
     /\ qEncoderCalls = 0
     /\ qStoreCalls = 0
     /\ embeddingCache = qCacheAtCall

\* an empty fileIds list with a query the cache does not hold
C6_Witness ==
  /\ qPc = "done"
  /\ qArgs.fileIds = <<>>
  /\ getCacheKey(qArgs.query) \notin DOMAIN embeddingCache
  /\ qRet.value = EmptyResult
  /\ qEncoderCalls = 0

\* a call that went through lines 574-632 is over
QueryFused == qPc = "done" /\ qRet.kind = "ok" /\ qCaught = "none" /\ qArgs.fileIds # <<>>

\* the per-file results one after the other, each chunk with its file
QConcatenated == combine(qArgs.fileIds, qTasks, 1)

\* `combined` after line 584
QFusedList == sortByDistance(QConcatenated)

\* how often x occurs in seq
Occurrences(seq, x) == Cardinality({i \in 1..Len(seq) : seq[i] = x})

\* a and b hold the same elements the same number of times
IsPermutationOf(a, b) ==
  /\ Len(a) = Len(b)
  /\ \A x \in Range(a) \cup Range(b) : Occurrences(a, x) = Occurrences(b, x)

NonDecreasing(distances) ==
  \A i \in 1..Len(distances) : \A j \in 1..Len(distances) :
     (i < j) => distances[i] <= distances[j]

\* C13: the fused list of queryDocuments is a permutation of the concatenated
\* per-file results with non-decreasing distances; without reranking the
\* returned distances are non-decreasing, and the returned chunks are the fused
\* list itself when it has at most nResults chunks.
C13_FusionSortedByDistance ==
  QueryFused =>
     /\ IsPermutationOf(QFusedList, QConcatenated)
     /\ NonDecreasing([i \in 1..Len(QFusedList) |-> QFusedList[i].distance])
     /\ ~qArgs.rerankResults =>
           /\ NonDecreasing(qRet.value.distances)
           /\ Len(QFusedList) <= qArgs.nResults =>
                 ReturnedChunks(qRet.value) =
                   [i \in 1..Len(QFusedList) |->
                      [document |-> QFusedList[i].document,
                       metadata |-> QFusedList[i].metadata,
                       distance |-> QFusedList[i].distance]]

\* without reranking, a chunk of f2 is returned before a farther chunk of f1, and
\* that one before a chunk of f2 as far: the files are interleaved by distance
C13_Witness ==
  /\ QueryFused
  /\ ~qArgs.rerankResults
  /\ Len(qRet.value.distances) >= 3
  /\ qRet.value.metadatas[1].fileId = "f2"
  /\ qRet.value.metadatas[2].fileId = "f1"
  /\ qRet.value.metadatas[3].fileId = "f2"
  /\ qRet.value.distances[1] < qRet.value.distances[2]

\* the chunks handed to rerankByRelevance: the fused list, cut by the diversity
\* filter when it is longer than nResults (lines 596-608)
QRerankCandidates ==
  LET picked == IF Len(QFusedList) > qArgs.nResults
                THEN applyDiversityFilter([i \in 1..Len(QFusedList) |-> QFusedList[i].document],
                                          qArgs.diversityThreshold, qArgs.nResults)
                ELSE [i \in 1..Len(QFusedList) |-> i]
  IN [i \in 1..Len(picked) |->
        [document |-> QFusedList[picked[i]].document,
         metadata |-> QFusedList[picked[i]].metadata,
         distance |-> QFusedList[picked[i]].distance]]

\* 0.6 * (1 - distance) + 0.3 * (matched terms / terms) + 0.1 * (1 - chunkIndex /
\* totalChunks * 0.1) of a chunk, as the fraction <<numerator, denominator>>
CompositeScore(query, chunk) ==
  LET terms == SplitWs(toLowerCase(query))
      q == Len(terms)
      m == Cardinality({k \in 1..q : Includes(toLowerCase(chunk.document), terms[k])})
      ci == chunk.metadata.chunkIndex
      tc == chunk.metadata.totalChunks
  IN <<60 * (100 - chunk.distance) * q * tc + 3000 * m * tc + 10 * q * (100 * tc - 10 * ci),
       10000 * q * tc>>

\* fraction a is at least fraction b
AtLeast(a, b) == a[1] * b[2] >= b[1] * a[2]

RECURSIVE ChunksFrom(_)
ChunksFrom(i) ==
  IF i > Len(qTasks) THEN 0 ELSE Len(qTasks[i].result) + ChunksFrom(i + 1)

\* the requested files, from position i on, whose callback resolved with a chunk
RECURSIVE ContributorsFrom(_)
ContributorsFrom(i) ==
  IF i > Len(qTasks) THEN <<>>
  ELSE (IF Len(qTasks[i].result) >= 1 THEN <<qArgs.fileIds[i]>> ELSE <<>>)
       \o ContributorsFrom(i + 1)

\* C16: in every result of queryDocuments, totalChunks is the sum of the lengths
\* of the per-file results (the fused chunks before the diversity filter and the
\* rerank) and filesQueried lists, in the order requested, exactly the fileIds
\* whose per-file query contributed at least one chunk.
C16_TotalsAndFilesQueried ==
  (qPc = "done" /\ qRet.kind = "ok") =>
     /\ qRet.value.totalChunks = ChunksFrom(1)
     /\ qRet.value.filesQueried = ContributorsFrom(1)
     /\ Len(qRet.value.documents) <= qRet.value.totalChunks

\* both files were asked and neither query threw; f1's collection is empty, so
\* only f2 contributed, with two chunks
C16_Witness ==
  /\ QueryFused
  /\ qArgs.fileIds = <<"f1", "f2">>
  /\ qTaskThrew = <<FALSE, FALSE>>
  /\ collections["f1"] = <<>>
  /\ qRet.value.filesQueried = <<"f2">>
  /\ qRet.value.totalChunks = 2

\* the call is over and every per-file query of it threw
EveryFileThrew ==
  /\ qPc = "done"
  /\ qArgs.fileIds # <<>>
  /\ Len(qTaskThrew) = Len(qArgs.fileIds)
  /\ \A i \in 1..Len(qTaskThrew) : qTaskThrew[i]

\* C17: if every per-file sub-query fails, queryDocuments throws nothing and no
\* error reaches its own catch: each failure is captured by its callback, and
\* the result is empty (no documents, metadatas, distances, totalChunks 0,
\* filesQueried empty).
C17_AllFilesFailingGivesEmpty ==
  EveryFileThrew =>
     /\ qRet = [kind |-> "ok", value |-> EmptyResult]
     /\ qCaught = "none"
     /\ \A i \in 1..Len(qTasks) : qTasks[i].settled /\ qTasks[i].result = <<>>

\* two files were asked: one has no collection, the store rejected the query of
\* the other, which holds chunks
C17_Witness ==
  /\ EveryFileThrew
  /\ qArgs.fileIds = <<"f1", "f2">>
  /\ collections["f1"] = NoCollection
  /\ collections["f2"] # NoCollection
  /\ Len(collections["f2"]) = 2
  /\ qRet.value = EmptyResult

(***************************************************************************)
(* Properties of the rerank score                                          *)
(***************************************************************************)
\* C15: for a chunk with distance in [0, 1] and 0 <= chunkIndex < totalChunks (its
\* keyword fraction is in [0, 1] by construction), the composite score computed by
\* rerankByRelevance lies in [0, 1].
C15_ScoreInUnitInterval ==
  (scoreValue # <<0, 0>>) =>
     /\ scoreValue[2] > 0
     /\ 0 <= scoreValue[1]
     /\ scoreValue[1] <= scoreValue[2]

\* the score reaches 1: distance 0, every query term in the chunk, first chunk
C15_Witness ==
  /\ scoreValue # <<0, 0>>
  /\ scoreValue[1] = scoreValue[2]
  /\ scoreArgs.distance = 0
  /\ scoreArgs.query = QueryBC
  /\ scoreArgs.document = DocBC

(***************************************************************************)
(* Properties of the chat POST handler                                     *)
(***************************************************************************)
\* the retrieval was attempted and failed
RetrievalFailed == chatOutcome \in {"queryThrew", "buildThrew"}

\* the handler returned the response stream after saving the user message
ChatTurnServed ==
  /\ chatPc = "done"
  /\ chatResponse = "stream"
  /\ chatStream.started
  /\ chatSaved = <<[role |-> "user", parts |-> chatReq.userQuery]>>

\* C18: whatever the retrieval outcome (chunks, empty result, queryDocuments or the
\* context building throwing, or no retrieval at all), the handler eventually has
\* saved the user message and started the response stream; after a retrieval failure
\* the RAG context is empty, also in the prompt of the stream.
C18_RetrievalNeverBlocksTheTurn ==
  /\ <>ChatTurnServed
  /\ [](RetrievalFailed => ragContext = <<>> /\ chatStream.ragContext = <<>>)

C18_Witness ==
  /\ ChatTurnServed
  /\ chatOutcome = "queryThrew"
  /\ chatQueryCall.fileIds = <<"f1", "f2">>
  /\ chatQueryCall.nResults = 25
  /\ chatStream.ragContext = <<>>

(***************************************************************************)
(* Properties of detectQueryType                                           *)
(***************************************************************************)
\* the lowercased query contains one of the cues of the list
HasCue(cues, query) ==
  \E k \in 1..Len(cues) : \E i \in 1..Len(query) :
     /\ i + Len(cues[k]) - 1 <= Len(query)
     /\ \A j \in 1..Len(cues[k]) : LowerChar(query[i + j - 1]) = cues[k][j]

\* the class the rule of the claim gives
ClassByRule(query) ==
  IF HasCue(overviewKeywords, query) THEN "overview"
  ELSE IF HasCue(explanationKeywords, query) THEN "explanation"
  ELSE "specific"

\* C19: detectQueryType returns a class for every query, the same in both copies:
\* overview iff the lowercased query contains an overview cue, otherwise explanation
\* iff it contains an explanation cue, otherwise specific; "Can you summarize chapter
\* 3?" is overview, "What is entropy?" is explanation and "What page mentions GDP
\* growth in 2020?" is specific.
C19_ClassifiedByCues ==
  clsResult # NoClass =>
     /\ clsResult.chroma = ClassByRule(clsQuery)
     /\ clsResult.route = ClassByRule(clsQuery)
     /\ clsQuery = QuerySummarize => clsResult.chroma = "overview"
     /\ clsQuery = QueryEntropy => clsResult.chroma = "explanation"
     /\ clsQuery = QueryGDP => clsResult.chroma = "specific"

\* "Please WHAT IS COVERED explain": cues of both lists, in capitals
C19_Witness ==
  /\ clsQuery = <<"P", "l", "e", "a", "s", "e", " ", "W", "H", "A", "T", " ", "I", "S", " ", "C", "O", "V", "E", "R", "E", "D", " ", "e", "x", "p", "l", "a", "i", "n">>
  /\ HasCue(overviewKeywords, clsQuery)
  /\ HasCue(explanationKeywords, clsQuery)
  /\ clsResult = [chroma |-> "overview", route |-> "overview"]

(***************************************************************************)
(* Properties of the DELETE handler                                        *)
(***************************************************************************)
\* the handler answered 200 for the file of the request, whose row is gone
DeleteSucceeded ==
  /\ delPc = "done"
  /\ delRet = Status(200)
  /\ files[delArgs.id] = NoFile

\* C20: after the DELETE handler finished successfully (file record removed), the
\* vector store holds no collection named by that fileId.
C20_CollectionGoneAfterDelete ==
  DeleteSucceeded => collections[delArgs.id] = NoCollection

(***************************************************************************)
(* Properties of the per-file request sizes                                *)
(***************************************************************************)
\* the least q with q * b >= a
CeilDiv(a, b) == CHOOSE q \in 0..a : q * b >= a /\ (q = 0 \/ (q - 1) * b < a)

\* the least integer not above a / b, without \div
FloorDiv(a, b) == CHOOSE q \in 0..a : q * b <= a /\ (q + 1) * b > a

\* ceil(nResults / |fileIds|), three times that when reranking is enabled
ClaimedRequest ==
  LET c == CeilDiv(reqArgs.nResults, Len(reqArgs.fileIds)) IN
  IF reqArgs.rerankResults THEN 3 * c ELSE c

\* C21 as stated: every query of a per-file callback requests ceil(nResults /
\* |fileIds|) results without reranking and three times that with reranking, in the
\* standard and in the overview strategy.
C21_EveryRequestAsClaimed ==
  \A k \in 1..Len(reqSizes) : reqSizes[k] = ClaimedRequest

\* C21 amended: the standard query requests ceil(nResults / |fileIds|) results
\* without reranking and three times that with reranking; the overview strategy has
\* the budget c = ceil(nResults / |fileIds|) with or without reranking, and its
\* queries request floor(0.6 c) for the semantic query, floor(floor(0.4 c) / 2) for
\* each structural probe and c for the fallback query.
C21_RequestSizes ==
  LET c == CeilDiv(reqArgs.nResults, Len(reqArgs.fileIds))
      sem == FloorDiv(6 * c, 10)
      probe == FloorDiv(FloorDiv(4 * c, 10), 2)
  IN reqSizes # <<>> =>
       IF reqArgs.overview
       THEN \/ reqSizes = <<sem, probe, probe>>
            \/ reqSizes = <<sem, c>>
            \/ reqSizes = <<sem, probe, probe, c>>
       ELSE reqSizes = <<ClaimedRequest>>

\* 25 results over two files with reranking, overview strategy: the budget is 13 and
\* the queries ask for 7, 2 and 2 results, not for 39
C21_Witness ==
  /\ reqArgs = [nResults |-> 25, fileIds |-> <<"f1", "f2">>, rerankResults |-> TRUE,
                overview |-> TRUE]
  /\ reqSizes = <<7, 2, 2>>
  /\ ClaimedRequest = 39

(***************************************************************************)
(* Properties of the concurrent per-file queries                           *)
(***************************************************************************)
\* the chunks of the per-file results from position i of fileIds on, each with its file
RECURSIVE PositionalChunks(_)
PositionalChunks(i) ==
  IF i > Len(qTasks) THEN <<>>
  ELSE [k \in 1..Len(qTasks[i].result) |->
          [document |-> qTasks[i].result[k].document,
           metadata |-> qTasks[i].result[k].metadata,
           distance |-> qTasks[i].result[k].distance,
           fileId |-> qArgs.fileIds[i]]]
       \o PositionalChunks(i + 1)

\* every position of fileIds occurs exactly once in qOrder
EverySettledOnce ==
  /\ Len(qOrder) = Len(qArgs.fileIds)
  /\ \A i \in 1..Len(qArgs.fileIds) : Occurrences(qOrder, i) = 1

\* C22: whatever the order in which the per-file callbacks settle, the fusion runs
\* only once every one of them has settled (resolved with chunks or with its failure
\* caught); the fused set counts the chunks of every callback that resolved, and
\* all of them are returned when nothing is trimmed; the returned object is the one
\* computed from the per-file results taken in the order of fileIds, so it does not
\* depend on the order of settling.
C22_FusionAfterAllSettled ==
  /\ (qPc = "done" /\ qCaught = "none" /\ qArgs.fileIds # <<>>) =>
        /\ EverySettledOnce
        /\ \A i \in 1..Len(qTasks) : qTasks[i].settled
        /\ qRet.value.totalChunks = Len(PositionalChunks(1))
        /\ Len(PositionalChunks(1)) <= qArgs.nResults =>
              \A c \in Range(PositionalChunks(1)) :
                 Occurrences(ReturnedChunks(qRet.value),
                             [document |-> c.document, metadata |-> c.metadata,
                              distance |-> c.distance])
                 >= Occurrences(PositionalChunks(1), c)
        /\ qRet.value = fuseList(qArgs, PositionalChunks(1), qTasks)
  /\ (qPc = "files") => \A k \in 1..Len(qOrder) : qTasks[qOrder[k]].settled

\* f2 settled before f1, both with a chunk at the same distance: the chunk of f1 is
\* returned first all the same
C22_Witness ==
  /\ qPc = "done"
  /\ qCaught = "none"
  /\ qArgs.fileIds = <<"f1", "f2">>
  /\ ~qArgs.rerankResults
  /\ qOrder = <<2, 1>>
  /\ Len(qTasks[1].result) = 1
  /\ Len(qTasks[2].result) = 1
  /\ qTasks[1].result[1].distance = qTasks[2].result[1].distance
  /\ qRet.value.metadatas = <<qTasks[1].result[1].metadata, qTasks[2].result[1].metadata>>
  /\ qTasks[1].result[1].metadata # qTasks[2].result[1].metadata

(***************************************************************************)
(* Properties of processPDF                                                *)
(***************************************************************************)
\* the parser resolved: the state is past "parse" and not by its rejection
PdfParsed == pdfPc # "parse" /\ ~(pdfPc = "done" /\ pdfRet.kind = "throw" /\ pdfOcr = <<>>)

\* C23: processPDF goes to OCR exactly when the trimmed character count is below
\* pageCount * 100; with pageCount * 100 characters or more the parser's text is
\* returned with isScanned = false.
C23_OcrExactlyBelowLimit ==
  PdfParsed =>
     /\ (pdfOcr # <<>>) <=> (pdfIn.trimmedLength < pdfIn.pageCount * 100)
     /\ (pdfIn.trimmedLength >= pdfIn.pageCount * 100) =>
           /\ pdfRet.kind = "ok"
           /\ pdfRet.text.source = "parser"
           /\ ~pdfRet.metadata.isScanned

\* C24: Gemini is invoked only after Mistral was invoked once and failed, no engine
\* is invoked twice, the ocrEngine of the metadata is the engine whose text is
\* returned, and the extraction fails after OCR began only when both engines failed.
C24_GeminiOnlyAfterMistralFailed ==
  /\ pdfOcr \in {<<>>, <<"mistral">>, <<"mistral", "gemini">>}
  /\ pdfOcr = <<"mistral", "gemini">> => pdfRet.text.source # "mistral"
  /\ (pdfPc = "done" /\ pdfRet.kind = "ok") =>
        /\ pdfRet.metadata.isScanned <=> pdfOcr # <<>>
        /\ pdfRet.metadata.isScanned =>
              /\ pdfRet.metadata.ocrEngine = pdfRet.text.source
              /\ pdfRet.metadata.ocrEngine = pdfOcr[Len(pdfOcr)]
        /\ ~pdfRet.metadata.isScanned =>
              pdfRet.metadata.ocrEngine = "undefined" /\ pdfRet.text.source = "parser"
  /\ (pdfPc = "done" /\ pdfRet.kind = "throw" /\ pdfOcr # <<>>) =>
        pdfOcr = <<"mistral", "gemini">>

\* Mistral failed, Gemini gave the text
C24_Witness ==
  /\ pdfPc = "done"
  /\ pdfOcr = <<"mistral", "gemini">>
  /\ pdfRet.kind = "ok"
  /\ pdfRet.text = [source |-> "gemini", empty |-> FALSE]
  /\ pdfRet.metadata = [pageCount |-> 2, isScanned |-> TRUE, ocrEngine |-> "gemini"]

(***************************************************************************)
(* Properties of extractTextWithGemini                                     *)
(***************************************************************************)
\* the ranges submitted so far are consecutive, start at page 1 and have at most 15
\* pages each
RangesConsecutive ==
  \A k \in 1..Len(gemChunks) :
     /\ gemChunks[k].startPage = (IF k = 1 THEN 1 ELSE gemChunks[k - 1].endPage + 1)
     /\ gemChunks[k].startPage <= gemChunks[k].endPage
     /\ gemChunks[k].endPage - gemChunks[k].startPage + 1 <= 15

\* every page of the document lies in exactly one submitted range
EveryPageOnce ==
  \A page \in 1..gemTotal :
     Cardinality({k \in 1..Len(gemChunks) :
                    gemChunks[k].startPage <= page /\ page <= gemChunks[k].endPage}) = 1

\* the pages whose range gave a text
PagesWithText ==
  {page \in 1..gemTotal :
     \E k \in 1..Len(gemChunks) :
        /\ gemChunks[k].startPage <= page /\ page <= gemChunks[k].endPage
        /\ gemChunks[k].text # <<>>}

\* C25: for more than 15 pages the ranges submitted are consecutive, of at most 15
\* pages, and once all are submitted they cover the pages 1..totalPages exactly
\* once; the final text is the ranges' texts in page order, whatever the order in
\* which the calls settled; if a call failed the extraction fails.
C25_RangesCoverAndJoinInPageOrder ==
  gemTotal > 15 =>
     /\ RangesConsecutive
     /\ gemPc = "awaitAll" => EveryPageOnce
     /\ (gemPc = "done" /\ gemRet.kind = "ok") =>
           /\ EveryPageOnce
           /\ \A k \in 1..Len(gemChunks) : gemChunks[k].state = "resolved"
           /\ \A i \in 1..Len(gemRet.text) : \A j \in 1..Len(gemRet.text) :
                 i < j => gemRet.text[i] < gemRet.text[j]
           /\ Range(gemRet.text) = PagesWithText
     /\ (gemPc = "done" /\ \E k \in 1..Len(gemChunks) : gemChunks[k].state = "rejected") =>
           gemRet.kind = "throw"

\* 31 pages in three ranges whose calls settled last range first
C25_Witness ==
  /\ gemPc = "done"
  /\ gemTotal = 31
  /\ gemOrder = <<3, 2, 1>>
  /\ gemRet = [kind |-> "ok", text |-> [page \in 1..31 |-> page]]

(***************************************************************************)
(* Properties of the object queryDocuments returns                         *)
(***************************************************************************)
\* C26: every result of queryDocuments has documents, metadatas and distances of
\* the same length, at most nResults and at most totalChunks, and every returned
\* chunk is of a file listed in filesQueried.
C26_ResultWellFormed ==
  (qPc = "done" /\ qRet.kind = "ok") =>
     LET v == qRet.value IN
     /\ Len(v.documents) = Len(v.metadatas)
     /\ Len(v.documents) = Len(v.distances)
     /\ Len(v.documents) <= qArgs.nResults
     /\ Len(v.documents) <= v.totalChunks
     /\ \A i \in 1..Len(v.metadatas) : v.metadatas[i].fileId \in Range(v.filesQueried)

\* one chunk asked of two files, no reranking: each file gave one, the filter cut
\* the fused list down to the nearer one, which is of the second file
C26_Witness ==
  /\ qPc = "done"
  /\ qRet.kind = "ok"
  /\ ~qArgs.rerankResults
  /\ qArgs.nResults = 1
  /\ qRet.value.totalChunks = 2
  /\ Len(qRet.value.documents) = 1
  /\ qRet.value.filesQueried = <<"f1", "f2">>
  /\ qRet.value.metadatas[1].fileId = "f2"

(***************************************************************************)
(* Properties of an ingestion run racing with the DELETE of its file       *)
(***************************************************************************)
\* C27: once a file's ingestion run and the DELETE of that file have both
\* finished, the store holds no collection named by that file.
C27_NoCollectionOfDeletedFile ==
  \A f \in RaceFileIds :
    (/\ ingPc[f] = "done"
     /\ delPc = "done" /\ delArgs.id = f /\ delRet = Status(200))
    => collections[f] = NoCollection

(***************************************************************************)
(* Properties of the reranking step of queryDocuments                      *)
(***************************************************************************)
\* the fused list as chunks of the returned shape
QFusedChunks ==
  [i \in 1..Len(QFusedList) |->
     [document |-> QFusedList[i].document, metadata |-> QFusedList[i].metadata,
      distance |-> QFusedList[i].distance]]

\* the positions of the fused list whose chunk is returned
QReturnedPositions ==
  {i \in 1..Len(QFusedChunks) : QFusedChunks[i] \in Range(ReturnedChunks(qRet.value))}

\* the fused chunk at position i is more similar than the threshold to a returned
\* chunk that is nearer in the fused list
TooSimilarToNearer(i) ==
  \E j \in QReturnedPositions :
     /\ j < i
     /\ SimilarityAbove(calculateSimilarity(QFusedChunks[i].document, QFusedChunks[j].document),
                        qArgs.diversityThreshold)

\* nResults returned chunks are nearer in the fused list than position i
BudgetSpentBefore(i) ==
  Cardinality({j \in QReturnedPositions : j < i}) >= qArgs.nResults

\* C28: the reranking step never removes a chunk: it is handed at most nResults
\* chunks and returns a permutation of them; a fused list of at most nResults
\* chunks is returned whole, and of a longer one a chunk is left out only by the
\* diversity filter walking the list in distance order (it is too similar to a
\* nearer returned chunk, or nResults nearer chunks were already taken), never
\* because of its composite score.
C28_RerankRemovesNothing ==
  (QueryFused /\ qArgs.rerankResults) =>
     LET got == ReturnedChunks(qRet.value) IN
     /\ Len(QRerankCandidates) <= qArgs.nResults
     /\ IsPermutationOf(got, QRerankCandidates)
     /\ Len(got) = Cardinality(QReturnedPositions)
     /\ Len(QFusedChunks) <= qArgs.nResults => QReturnedPositions = 1..Len(QFusedChunks)
     /\ \A i \in (1..Len(QFusedChunks)) \ QReturnedPositions :
           TooSimilarToNearer(i) \/ BudgetSpentBefore(i)

\* with reranking, more chunks were fused than asked for, and a chunk that was left
\* out only because nResults nearer ones were taken has a higher composite score
\* than a returned chunk
C28_Witness ==
  /\ QueryFused
  /\ qArgs.rerankResults
  /\ Len(QFusedChunks) > qArgs.nResults
  /\ Len(qRet.value.documents) = qArgs.nResults
  /\ \E i \in (1..Len(QFusedChunks)) \ QReturnedPositions :
        /\ ~TooSimilarToNearer(i)
        /\ \E c \in Range(ReturnedChunks(qRet.value)) :
              ~AtLeast(CompositeScore(qArgs.query, c),
                       CompositeScore(qArgs.query, QFusedChunks[i]))

(***************************************************************************)
(* Properties of the budgets of retrieveOverviewContextForFile             *)
(***************************************************************************)
\* the chunks of the collection the overview call reads
OvStored == Len(collections[ovArgs.fileId])

\* C29: with per-file budget n the semantic probe is answered with
\* floor(0.6 n) chunks and each of the two structural probes with
\* floor(floor(0.4 n) / 2) chunks (fewer when the collection is smaller); the
\* three sizes add up to at most n, so the fused result holds at most n chunks and
\* the truncation to n drops no candidate.
C29_OverviewBudgetsWithinN ==
  (ovPc = "done" /\ ovRet.kind = "fused") =>
     LET n == ovArgs.nResults
         semantic == (6 * n) \div 10
         probe == ((4 * n) \div 10) \div 2
     IN /\ Len(ovSemantic) = Min(semantic, OvStored)
        /\ \A k \in 1..Len(ovStructural) :
              Len(ovStructural[k].results) = Min(probe, OvStored)
        /\ semantic + 2 * probe <= n
        /\ Len(OvCandidates) <= n
        /\ Len(ovRet.value) = Len(OvCandidates)
        /\ IsPermutationOf(ovRet.value, OvCandidates)

\* budget 5: three chunks from the semantic probe and one from each structural
\* probe, all different, and the result holds all five
C29_Witness ==
  /\ ovPc = "done"
  /\ ovRet.kind = "fused"
  /\ ovArgs.nResults = 5
  /\ Len(ovSemantic) = 3
  /\ \A k \in 1..Len(ovStructural) : Len(ovStructural[k].results) = 1
  /\ Len(ovRet.value) = 5

(***************************************************************************)
(* Properties of the embedding cache under concurrent use                  *)
(***************************************************************************)
\* every entry maps the hash of a text to the encoder's vector for that text
CacheFaithful ==
  \A k \in DOMAIN embeddingCache : embeddingCache[k] = <<"vec", k[2], 0>>

\* a step removes no entry and changes none
CacheOnlyGrows ==
  \A k \in DOMAIN embeddingCache :
     k \in DOMAIN embeddingCache' /\ embeddingCache'[k] = embeddingCache[k]

\* C30: under any interleaving of ingestions, a query and deletions, with a
\* deterministic encoder, every cache entry maps the hash of a text to the
\* encoder's vector for that text, and an entry once inserted is never removed or
\* changed.
C30_CacheFaithfulAndGrowOnly == []CacheFaithful /\ [][CacheOnlyGrows]_vars

\* the query "b c" and the ingestion of a file with the chunk "b c" both missed
\* the cache and both have set the entry since; a DELETE was answered 200
C30_Witness ==
  /\ qArgs.query = QueryBC
  /\ qEncoderCalls = 1
  /\ qPc \in {"files", "done"}
  /\ \E f \in FileIds :
        /\ ingPc[f] \in {"getCollection", "add", "markCompleted"}
        /\ DocBC \in Range(ingEmb[f].textsToEmbed)
  /\ delPc = "done" /\ delRet = Status(200)
  /\ embeddingCache[getCacheKey(DocBC)] = <<"vec", DocBC, 0>>

====
